---------------------------- MODULE Spec2Model ----------------------------
(***************************************************************************)
(* txt2ppt: a markdown-like text is parsed into slides (parseSlides) and   *)
(* every slide's blocks are paginated onto fixed-size pages (renderSlides).*)
(* The repository holds the program twice: src/txt2ppt.ts and an earlier   *)
(* variant, src/unnamed/part_000.  The variable `variant` says which of    *)
(* the two files runs.                                                     *)
(*                                                                         *)
(* Strings are sequences of one-character strings, so that trimming,       *)
(* splitting, joining and the regular expressions are computed, not        *)
(* assumed.  Lengths are in 1/1000 inch (0.35 in = 350), exact.            *)
(***************************************************************************)
EXTENDS Integers, Sequences, FiniteSets, TLC

(***************************************************************************)
(* Characters and strings                                                  *)
(***************************************************************************)
LF == "\n"
CR == "\r"
TAB == "\t"
\* The character U+0060, which the module's own lexical rules keep out of a string.
BACKTICK == "BACKTICK"

\* What JavaScript's \s and trim() remove, within the alphabet used here.
IsWs(c) == c \in {" ", TAB, LF, CR}

IsDigit(c) == c \in {"0", "1", "2", "3", "4", "5", "6", "7", "8", "9"}

UpperLetters == <<"A", "B", "C", "D", "E", "F", "G", "H", "I", "J", "K", "L", "M",
                  "N", "O", "P", "Q", "R", "S", "T", "U", "V", "W", "X", "Y", "Z">>
LowerLetters == <<"a", "b", "c", "d", "e", "f", "g", "h", "i", "j", "k", "l", "m",
                  "n", "o", "p", "q", "r", "s", "t", "u", "v", "w", "x", "y", "z">>

LowerChar(c) ==
  IF \E i \in 1..26 : UpperLetters[i] = c
  THEN LowerLetters[CHOOSE i \in 1..26 : UpperLetters[i] = c]
  ELSE c

\* String.prototype.toLowerCase
toLowerCase(s) == [i \in 1..Len(s) |-> LowerChar(s[i])]

Min(S) == CHOOSE x \in S : \A y \in S : x <= y
Max(S) == CHOOSE x \in S : \A y \in S : x >= y
MaxOf(a, b) == IF a >= b THEN a ELSE b
MinOf(a, b) == IF a <= b THEN a ELSE b

\* Number of leading / trailing whitespace characters of s.
LeadWs(s) ==
  IF \A i \in 1..Len(s) : IsWs(s[i]) THEN Len(s)
  ELSE Min({i \in 1..Len(s) : ~IsWs(s[i])}) - 1

TrailWs(s) ==
  IF \A i \in 1..Len(s) : IsWs(s[i]) THEN Len(s)
  ELSE Len(s) - Max({i \in 1..Len(s) : ~IsWs(s[i])})

trimStart(s) == SubSeq(s, LeadWs(s) + 1, Len(s))
trimEnd(s) == SubSeq(s, 1, Len(s) - TrailWs(s))
trim(s) == trimEnd(trimStart(s))

\* s.slice(from) with a 0-based index, as in JavaScript.
sliceFrom(s, from) == SubSeq(s, from + 1, Len(s))
\* s.slice(0, to)
sliceTo(s, to) == SubSeq(s, 1, MinOf(to, Len(s)))

startsWith(s, p) == Len(s) >= Len(p) /\ SubSeq(s, 1, Len(p)) = p
endsWith(s, p) == Len(s) >= Len(p) /\ SubSeq(s, Len(s) - Len(p) + 1, Len(s)) = p

\* The value of an optional string field that was never set.
Undefined == <<"undefined">>

\* rawText.replace of every CR LF or lone CR by LF
RECURSIVE normalize(_)
normalize(s) ==
  IF Len(s) <= 1 THEN (IF s = <<CR>> THEN <<LF>> ELSE s)
  ELSE LET m == Len(s) \div 2
           left == SubSeq(s, 1, m)
           right == SubSeq(s, m + 1, Len(s))
       IN \* a CR that ends the left half takes the LF that starts the right half
          normalize(left) \o (IF s[m] = CR /\ s[m + 1] = LF THEN normalize(Tail(right))
                              ELSE normalize(right))

\* s.split(sep) for a one-character separator: the pieces between the
\* separators; "" gives [""].
RECURSIVE splitOn(_, _)
splitOn(s, sep) ==
  IF \A i \in 1..Len(s) : s[i] # sep THEN <<s>>
  ELSE LET k == Min({i \in 1..Len(s) : s[i] = sep})
       IN <<SubSeq(s, 1, k - 1)>> \o splitOn(SubSeq(s, k + 1, Len(s)), sep)
\* text.split("\n")
split(s) == splitOn(s, LF)

\* lines.join("\n")
RECURSIVE join(_)
join(ls) ==
  IF ls = <<>> THEN <<>>
  ELSE IF Len(ls) = 1 THEN ls[1]
  ELSE ls[1] \o <<LF>> \o join(Tail(ls))

\* The decimal digits of a small natural number, as `${n}` gives them.
DigitChars == <<"0", "1", "2", "3", "4", "5", "6", "7", "8", "9">>
RECURSIVE numberToString(_)
numberToString(n) ==
  IF n < 10 THEN <<DigitChars[n + 1]>>
  ELSE numberToString(n \div 10) \o <<DigitChars[(n % 10) + 1]>>

(***************************************************************************)
(* The line patterns of the parser                                         *)
(***************************************************************************)
\* A heading pattern that takes any run of "#" before the whitespace, so that
\* a subtitle line is a heading line as well; C32 tells it from HEADING_REGEX.
HEADING_REGEX_AnyRunOfHashes(s) ==
  \E k \in 1..Len(s) : (\A i \in 1..k : s[i] = "#") /\ k + 1 <= Len(s) /\ IsWs(s[k + 1])

\* HEADING_REGEX: "#" then whitespace, at the start
HEADING_REGEX(s) == Len(s) >= 2 /\ s[1] = "#" /\ IsWs(s[2])
\* s.replace(HEADING_REGEX, "") of a string that matches
stripHeading(s) == trimStart(Tail(s))

\* SUBTITLE_REGEX: "##" then whitespace, at the start
SUBTITLE_REGEX(s) == Len(s) >= 3 /\ s[1] = "#" /\ s[2] = "#" /\ IsWs(s[3])
stripSubtitle(s) == trimStart(SubSeq(s, 3, Len(s)))

\* CODE_FENCE_REGEX: three backticks at the start
CODE_FENCE_REGEX(s) == startsWith(s, <<BACKTICK, BACKTICK, BACKTICK>>)

\* NOTE_REGEX: ">note:" at the start, in any case
NOTE_REGEX(s) ==
  Len(s) >= 6 /\ toLowerCase(SubSeq(s, 1, 6)) = <<">", "n", "o", "t", "e", ":">>
stripNote(s) == IF NOTE_REGEX(s) THEN SubSeq(s, 7, Len(s)) ELSE s

\* BACKGROUND_REGEX: ">bg:" at the start, in any case
BACKGROUND_REGEX(s) ==
  Len(s) >= 4 /\ toLowerCase(SubSeq(s, 1, 4)) = <<">", "b", "g", ":">>
stripBackground(s) == IF BACKGROUND_REGEX(s) THEN SubSeq(s, 5, Len(s)) ELSE s

\* IMAGE_REGEX: whitespace, "![", alt (lazy), "](", path (greedy, not empty), ")",
\* whitespace, end.  imageInner is the part between "![" and the closing ")",
\* which is the last character that is not whitespace.
imageInner(s) ==
  LET t == trim(s)
  IN IF Len(t) >= 3 /\ t[1] = "!" /\ t[2] = "[" /\ t[Len(t)] = ")"
     THEN SubSeq(t, 3, Len(t) - 1)
     ELSE <<>>
\* Where "](" may stand: the path after it is not empty.
imageBreaks(s) ==
  LET inner == imageInner(s)
  IN {k \in 1..Len(inner) : k + 2 <= Len(inner) /\ inner[k] = "]" /\ inner[k + 1] = "("}
IMAGE_REGEX(s) == imageBreaks(s) # {}
\* The lazy alt group takes the first "](", the greedy path group all that follows.
imageAlt(s) == SubSeq(imageInner(s), 1, Min(imageBreaks(s)) - 1)
imagePathRaw(s) ==
  SubSeq(imageInner(s), Min(imageBreaks(s)) + 2, Len(imageInner(s)))

CoverTag == <<"#", "c", "o", "v", "e", "r">>
ContainTag == <<"#", "c", "o", "n", "t", "a", "i", "n">>
\* pathRaw.split on a trailing "#cover" or "#contain" in any case: [path, token]
sizingToken(p) ==
  IF Len(p) >= 6 /\ toLowerCase(SubSeq(p, Len(p) - 5, Len(p))) = CoverTag
  THEN SubSeq(p, Len(p) - 4, Len(p))
  ELSE IF Len(p) >= 8 /\ toLowerCase(SubSeq(p, Len(p) - 7, Len(p))) = ContainTag
  THEN SubSeq(p, Len(p) - 6, Len(p))
  ELSE Undefined
imagePath(p) ==
  IF sizingToken(p) = Undefined THEN p
  ELSE SubSeq(p, 1, Len(p) - Len(sizingToken(p)) - 1)
\* An imageSizing that keeps the tag as written; C15 tells it from imageSizing.
imageSizing_AsWritten(p) == sizingToken(p)

imageSizing(p) ==
  IF sizingToken(p) = Undefined THEN Undefined
  ELSE IF toLowerCase(sizingToken(p)) = Tail(CoverTag) THEN Tail(CoverTag)
  ELSE Tail(ContainTag)

\* BULLET_REGEX: indent, marker ("-", "*", or digits and "."), whitespace, rest.
\* bulletMarkerLen is the length of the marker after the indent,
\* 0 when the line is no bullet line.
bulletMarkerLen(s) ==
  LET r == trimStart(s)
      nd == IF \A i \in 1..Len(r) : IsDigit(r[i]) THEN Len(r)
            ELSE Min({i \in 1..Len(r) : ~IsDigit(r[i])}) - 1
  IN IF Len(r) >= 2 /\ r[1] \in {"-", "*"} /\ IsWs(r[2]) THEN 1
     ELSE IF nd >= 1 /\ Len(r) >= nd + 2 /\ r[nd + 1] = "." /\ IsWs(r[nd + 2])
          THEN nd + 1
     ELSE 0
BULLET_REGEX(s) == bulletMarkerLen(s) > 0
bulletIndent(s) == SubSeq(s, 1, LeadWs(s))
bulletMarker(s) == SubSeq(trimStart(s), 1, bulletMarkerLen(s))
bulletRest(s) ==
  trimStart(SubSeq(trimStart(s), bulletMarkerLen(s) + 1, Len(trimStart(s))))

\* isTableLine of both files
isTableLine(line) ==
  LET trimmed == trim(line)
  IN IF ~(startsWith(trimmed, <<"|">>) /\ endsWith(trimmed, <<"|">>)) THEN FALSE
     ELSE IF Len(trimmed) >= 3
             /\ \A i \in 2..(Len(trimmed) - 1) : IsWs(trimmed[i]) \/ trimmed[i] \in {":", "-"}
          THEN FALSE
     ELSE \E i \in 1..Len(trimmed) : trimmed[i] = "|"

(***************************************************************************)
(* Blocks and slides (Block, BulletItem, SlideSpec)                        *)
(***************************************************************************)
Paragraph(text) == [type |-> "paragraph", text |-> text]
Bullets(items) == [type |-> "bullets", items |-> items]
Image(alt, path, sizing) == [type |-> "image", alt |-> alt, path |-> path, sizing |-> sizing]
Code(text, language) == [type |-> "code", text |-> text, language |-> language]
Table(rows) == [type |-> "table", rows |-> rows]
BulletItem(text, bulletType, indentLevel) ==
  [text |-> text, bulletType |-> bulletType, indentLevel |-> indentLevel]

NewSlide(title) ==
  [title |-> title, subtitle |-> Undefined, blocks |-> <<>>,
   notes |-> Undefined, background |-> Undefined]

\* `Slide ${n}`
SlideTitle(n) == <<"S", "l", "i", "d", "e", " ">> \o numberToString(n)

MAX_INDENT_LEVEL == 3

(***************************************************************************)
(* parseSlides of src/txt2ppt.ts.  The parse state is ParseState: slides,  *)
(* current and codeBlock, the optional ones as sequences of length 0 or 1. *)
(* Line indices are 1-based here (lines[1] is the source's lines[0]).      *)
(***************************************************************************)
NewParseState == [slides |-> <<>>, current |-> <<>>, codeBlock |-> <<>>]

finalizeCurrentSlide(st) ==
  IF st.current # <<>>
  THEN [st EXCEPT !.slides = Append(st.slides, st.current[1]), !.current = <<>>]
  ELSE st

startNewSlide(st, rawTitle) ==
  LET s1 == finalizeCurrentSlide(st)
      title == trim(rawTitle)
  IN [s1 EXCEPT
        !.current = <<NewSlide(IF Len(title) > 0 THEN title
                               ELSE SlideTitle(Len(s1.slides) + 1))>>,
        !.codeBlock = <<>>]

ensureSlide(st) ==
  IF st.current = <<>>
  THEN startNewSlide(st, SlideTitle(Len(st.slides) + 1))
  ELSE st

\* An appendBlock that also pushes the open slide to slides; C25 tells it
\* from appendBlock.
appendBlock_SealsTheSlide(st, block) ==
  LET s1 == ensureSlide(st)
      s2 == [s1 EXCEPT !.current[1].blocks = Append(s1.current[1].blocks, block)]
  IN [s2 EXCEPT !.slides = Append(s2.slides, s2.current[1])]

appendBlock(st, block) ==
  LET s1 == ensureSlide(st)
  IN [s1 EXCEPT !.current[1].blocks = Append(s1.current[1].blocks, block)]

\* A string is truthy when it is set and not empty.
Truthy(str) == str # Undefined /\ str # <<>>

appendNote(st, line) ==
  LET s1 == ensureSlide(st)
      noteText == trim(stripNote(line))
      old == s1.current[1].notes
  IN [s1 EXCEPT !.current[1].notes =
        IF Truthy(old) THEN old \o <<LF>> \o noteText ELSE noteText]

updateBackground(st, line) ==
  LET s1 == ensureSlide(st)
      backgroundPath == trim(stripBackground(line))
  IN IF backgroundPath # <<>>
     THEN [s1 EXCEPT !.current[1].background = backgroundPath]
     ELSE s1

appendCodeBlock(st) ==
  IF st.codeBlock = <<>> THEN st
  ELSE LET block == Code(join(st.codeBlock[1].lines), st.codeBlock[1].language)
           s1 == appendBlock(st, block)
       IN [s1 EXCEPT !.codeBlock = <<>>]

\* One row of a table: the cells between the pipes, trimmed.
tableCells(candidate) ==
  LET inner == SubSeq(candidate, 2, Len(candidate) - 1)
      cells == splitOn(inner, "|")
  IN [k \in 1..Len(cells) |-> trim(cells[k])]

\* The first index from `index` on that is past the end or holds no table line.
RECURSIVE tableRunEnd(_, _)
tableRunEnd(lines, index) ==
  IF index > Len(lines) THEN index
  ELSE IF ~isTableLine(trim(lines[index])) THEN index
  ELSE tableRunEnd(lines, index + 1)

\* A collectTable that goes on after the line that ended the run; C18 tells
\* it from collectTable.
collectTable_SkipsTheStopLine(lines, startIndex) ==
  LET end == tableRunEnd(lines, startIndex)
  IN [rows |-> [k \in 1..(end - startIndex) |-> tableCells(trim(lines[startIndex + k - 1]))],
      nextIndex |-> end]

collectTable(lines, startIndex) ==
  LET end == tableRunEnd(lines, startIndex)
  IN [rows |-> [k \in 1..(end - startIndex) |-> tableCells(trim(lines[startIndex + k - 1]))],
      nextIndex |-> end - 1]

\* A bulletItemOf that does not clamp the level; C12 tells it from bulletItemOf.
bulletItemOf_Unclamped(raw) ==
  LET indentSpaces == Len(bulletIndent(raw))
                      + Cardinality({i \in 1..LeadWs(raw) : raw[i] = TAB})
      marker == bulletMarker(raw)
  IN BulletItem(trim(bulletRest(raw)),
                IF marker[Len(marker)] = "." THEN "number" ELSE "bullet",
                indentSpaces \div 2)

bulletItemOf(raw) ==
  LET indentSpaces == Len(bulletIndent(raw))
                      + Cardinality({i \in 1..LeadWs(raw) : raw[i] = TAB})
      indentLevel == MinOf(indentSpaces \div 2, MAX_INDENT_LEVEL)
      marker == bulletMarker(raw)
  IN BulletItem(trim(bulletRest(raw)),
                IF marker[Len(marker)] = "." THEN "number" ELSE "bullet",
                indentLevel)

RECURSIVE bulletRunEnd(_, _)
bulletRunEnd(lines, index) ==
  IF index > Len(lines) THEN index
  ELSE IF ~BULLET_REGEX(lines[index]) THEN index
  ELSE bulletRunEnd(lines, index + 1)

\* A collectBullets that takes the run and keeps no item; C26 tells it from
\* collectBullets.
collectBullets_KeepsNoItem(lines, startIndex) ==
  [items |-> <<>>, nextIndex |-> bulletRunEnd(lines, startIndex) - 1]

collectBullets(lines, startIndex) ==
  LET end == bulletRunEnd(lines, startIndex)
  IN [items |-> [k \in 1..(end - startIndex) |-> bulletItemOf(lines[startIndex + k - 1])],
      nextIndex |-> end - 1]

isBlockBoundary(line) ==
  LET trimmed == trim(line)
  IN IF trimmed = <<>> THEN TRUE
     ELSE \/ CODE_FENCE_REGEX(trimmed)
          \/ SUBTITLE_REGEX(trimmed)
          \/ HEADING_REGEX(trimmed)
          \/ NOTE_REGEX(trimmed)
          \/ BACKGROUND_REGEX(trimmed)
          \/ IMAGE_REGEX(line)
          \/ isTableLine(trimmed)
          \/ BULLET_REGEX(line)

\* The while loop of collectParagraph: [buffer, index] when it ends.
RECURSIVE collectParagraphLoop(_, _, _)
collectParagraphLoop(lines, index, buffer) ==
  IF index > Len(lines) THEN [buffer |-> buffer, index |-> index]
  ELSE IF trim(lines[index]) = <<>> THEN [buffer |-> buffer, index |-> index]
  ELSE LET b2 == Append(buffer, trim(lines[index]))
       IN IF index + 1 > Len(lines) \/ trim(lines[index + 1]) = <<>>
          THEN [buffer |-> b2, index |-> index]
          ELSE IF isBlockBoundary(lines[index + 1])
          THEN [buffer |-> b2, index |-> index]
          ELSE collectParagraphLoop(lines, index + 1, b2)

collectParagraph(lines, startIndex) ==
  LET r == collectParagraphLoop(lines, startIndex, <<>>)
  IN [text |-> join(r.buffer), nextIndex |-> r.index]

\* The tests of the rule chain outside a fence, each on the string the file
\* hands it: src/txt2ppt.ts tests heading, subtitle, note and background on
\* the line trimmed at both ends, part_000 on the line trimmed at its end.
MatchesRule(file, rule, rawLine) ==
  LET trimmedRight == trimEnd(rawLine)
      marked == IF file = "txt2ppt" THEN trim(trimmedRight) ELSE trimmedRight
  IN CASE rule = "fenceOpen" -> CODE_FENCE_REGEX(trimmedRight)
       [] rule = "heading" -> HEADING_REGEX(marked)
       [] rule = "subtitle" -> SUBTITLE_REGEX(marked)
       [] rule = "note" -> NOTE_REGEX(marked)
       [] rule = "background" -> BACKGROUND_REGEX(marked)
       [] rule = "image" -> IMAGE_REGEX(rawLine)
       [] rule = "table" -> isTableLine(trimmedRight)
       [] rule = "bullets" -> BULLET_REGEX(rawLine)

\* One pass of the for loop of parseSlides at lines[index]: the state after
\* it, the last line it consumed (the loop goes on at last + 1) and the rule
\* that took the line.
parseLine(st, lines, index) ==
  LET rawLine == lines[index]
      trimmedRight == trimEnd(rawLine)
      trimmed == trim(trimmedRight)
      R(s, last, rule) == [st |-> s, last |-> last, rule |-> rule, threw |-> FALSE]
  IN IF st.codeBlock # <<>>
     THEN IF CODE_FENCE_REGEX(trimmedRight)
          THEN R(appendCodeBlock(st), index, "fenceClose")
          ELSE R([st EXCEPT !.codeBlock[1].lines = Append(st.codeBlock[1].lines, rawLine)],
                 index, "codeLine")
     ELSE IF trimmed = <<>> THEN R(st, index, "blank")
     ELSE IF CODE_FENCE_REGEX(trimmedRight)
     THEN LET lang == trim(sliceFrom(trimmedRight, 3))
          IN R([st EXCEPT !.codeBlock =
                  <<[language |-> IF lang = <<>> THEN Undefined ELSE lang, lines |-> <<>>]>>],
               index, "fenceOpen")
     ELSE IF SUBTITLE_REGEX(trimmed)
     THEN LET s1 == ensureSlide(st)
          IN R([s1 EXCEPT !.current[1].subtitle = trim(stripSubtitle(trimmed))],
               index, "subtitle")
     ELSE IF HEADING_REGEX(trimmed)
     THEN R(startNewSlide(st, trim(stripHeading(trimmed))), index, "heading")
     ELSE IF NOTE_REGEX(trimmed) THEN R(appendNote(st, trimmedRight), index, "note")
     ELSE IF BACKGROUND_REGEX(trimmed)
     THEN R(updateBackground(st, trimmedRight), index, "background")
     ELSE IF IMAGE_REGEX(rawLine)
     THEN LET pathRaw == imagePathRaw(rawLine)
          IN R(appendBlock(st, Image(trim(imageAlt(rawLine)), trim(imagePath(pathRaw)),
                                     imageSizing(pathRaw))),
               index, "image")
     ELSE IF isTableLine(trimmedRight)
     THEN LET t == collectTable(lines, index)
          IN R(appendBlock(st, Table(t.rows)), t.nextIndex, "table")
     ELSE IF BULLET_REGEX(rawLine)
     THEN LET b == collectBullets(lines, index)
          IN R(appendBlock(st, Bullets(b.items)), b.nextIndex, "bullets")
     ELSE LET p == collectParagraph(lines, index)
          IN R(appendBlock(st, Paragraph(p.text)), p.nextIndex, "paragraph")

\* After the loop: appendCodeBlock, finalizeCurrentSlide.
parseEnd(st) == [st |-> finalizeCurrentSlide(appendCodeBlock(st)), threw |-> FALSE]


(***************************************************************************)
(* parseSlides of src/unnamed/part_000.  Its state is the closure's        *)
(* slides, current and codeState, kept in the same record (codeBlock is    *)
(* codeState).  A step that dereferences the null codeState throws a       *)
(* TypeError: threw is TRUE.                                               *)
(***************************************************************************)
\* ensureSlide of part_000: pushCurrent, then a new current slide.
ensureSlide000(st, title) ==
  LET pushed == IF st.current # <<>> THEN Append(st.slides, st.current[1]) ELSE st.slides
      t == trim(title)
  IN [slides |-> pushed,
      current |-> <<NewSlide(IF t # <<>> THEN t ELSE SlideTitle(Len(pushed) + 1))>>,
      codeBlock |-> <<>>]

\* if (!current) { ensureSlide(`Slide ${slides.length + 1}`); }
needCurrent000(st) ==
  IF st.current = <<>> THEN ensureSlide000(st, SlideTitle(Len(st.slides) + 1)) ELSE st

appendNote000(st, line) ==
  LET s1 == needCurrent000(st)
      noteText == trim(stripNote(line))
      old == s1.current[1].notes
  IN [s1 EXCEPT !.current[1].notes =
        IF ~Truthy(old) THEN noteText ELSE old \o <<LF>> \o noteText]

setBackground000(st, line) ==
  LET s1 == needCurrent000(st)
      bgPath == trim(stripBackground(line))
  IN IF bgPath # <<>> THEN [s1 EXCEPT !.current[1].background = bgPath] ELSE s1

\* current!.blocks.push(block)
pushBlock000(st, block) ==
  [st EXCEPT !.current[1].blocks = Append(st.current[1].blocks, block)]

\* The test that ends the paragraph look-ahead of part_000, on the trimmed
\* next line: it starts with "#", three backticks, "![", ">note:" or ">bg:".
paragraphStop000(t) ==
  \/ startsWith(t, <<"#">>)
  \/ startsWith(t, <<BACKTICK, BACKTICK, BACKTICK>>)
  \/ startsWith(t, <<"!", "[">>)
  \/ startsWith(t, <<">", "n", "o", "t", "e", ":">>)
  \/ startsWith(t, <<">", "b", "g", ":">>)

\* The while loop of the paragraph branch: [buffer, index] when it ends, index
\* the last line taken.
RECURSIVE paragraphLoop000(_, _, _)
paragraphLoop000(lines, i, buffer) ==
  IF i + 1 <= Len(lines) /\ trim(lines[i + 1]) # <<>> /\ ~paragraphStop000(trim(lines[i + 1]))
  THEN LET nextLine == lines[i + 1]
       IN IF isTableLine(nextLine) THEN [buffer |-> buffer, index |-> i]
          ELSE IF BULLET_REGEX(nextLine) THEN [buffer |-> buffer, index |-> i]
          ELSE paragraphLoop000(lines, i + 1, Append(buffer, trim(nextLine)))
  ELSE [buffer |-> buffer, index |-> i]

\* The end of the table run that starts at lines[i]: the last table line.
RECURSIVE tableRunLast000(_, _)
tableRunLast000(lines, i) ==
  IF i + 1 <= Len(lines) /\ isTableLine(lines[i + 1])
  THEN tableRunLast000(lines, i + 1)
  ELSE i

\* One pass of the for loop of part_000's parseSlides at lines[i].
parseLine000(st, lines, i) ==
  LET rawLine == lines[i]
      line == trimEnd(rawLine)
      R(s, last, rule) == [st |-> s, last |-> last, rule |-> rule, threw |-> FALSE]
      Throw == [st |-> st, last |-> i, rule |-> "fenceClose", threw |-> TRUE]
  IN IF st.codeBlock # <<>>
     THEN IF CODE_FENCE_REGEX(line)
          THEN LET s1 == needCurrent000(st)
               IN IF s1.codeBlock = <<>> THEN Throw
                  ELSE R([pushBlock000(s1, Code(join(s1.codeBlock[1].lines),
                                                s1.codeBlock[1].language))
                            EXCEPT !.codeBlock = <<>>],
                         i, "fenceClose")
          ELSE R([st EXCEPT !.codeBlock[1].lines = Append(st.codeBlock[1].lines, rawLine)],
                 i, "codeLine")
     ELSE IF CODE_FENCE_REGEX(line)
     THEN LET lang == trim(sliceFrom(line, 3))
          IN R([st EXCEPT !.codeBlock =
                  <<[language |-> IF lang = <<>> THEN Undefined ELSE lang, lines |-> <<>>]>>],
               i, "fenceOpen")
     ELSE IF trim(line) = <<>> THEN R(st, i, "blank")
     ELSE IF HEADING_REGEX(line)
     THEN R(ensureSlide000(st, trim(stripHeading(line))), i, "heading")
     ELSE IF SUBTITLE_REGEX(line)
     THEN LET s1 == needCurrent000(st)
          IN R([s1 EXCEPT !.current[1].subtitle = trim(stripSubtitle(line))], i, "subtitle")
     ELSE IF NOTE_REGEX(line) THEN R(appendNote000(st, line), i, "note")
     ELSE IF BACKGROUND_REGEX(line) THEN R(setBackground000(st, line), i, "background")
     ELSE IF IMAGE_REGEX(rawLine)
     THEN LET pathRaw == imagePathRaw(rawLine)
          IN R(pushBlock000(needCurrent000(st),
                            Image(trim(imageAlt(rawLine)), trim(imagePath(pathRaw)),
                                  imageSizing(pathRaw))),
               i, "image")
     ELSE IF isTableLine(line)
     THEN LET last == tableRunLast000(lines, i)
              rows == [k \in 1..(last - i + 1) |-> tableCells(trim(trimEnd(lines[i + k - 1])))]
          IN R(pushBlock000(needCurrent000(st), Table(rows)), last, "table")
     ELSE IF BULLET_REGEX(rawLine)
     THEN LET b == collectBullets(lines, i)
          IN R(pushBlock000(needCurrent000(st), Bullets(b.items)), b.nextIndex, "bullets")
     ELSE IF st.current = <<>>
     THEN R(ensureSlide000(st, line), i, "title")
     ELSE LET p == paragraphLoop000(lines, i, <<trim(rawLine)>>)
          IN R(pushBlock000(needCurrent000(st), Paragraph(join(p.buffer))),
               p.index, "paragraph")

\* After the loop of part_000: the open fence is flushed, current is pushed.
parseEnd000(st) ==
  LET s1 == IF st.codeBlock # <<>> THEN needCurrent000(st) ELSE st
  IN IF st.codeBlock # <<>> /\ s1.codeBlock = <<>>
     THEN [st |-> st, threw |-> TRUE]
     ELSE LET s2 == IF st.codeBlock # <<>>
                    THEN pushBlock000(s1, Code(join(s1.codeBlock[1].lines),
                                               s1.codeBlock[1].language))
                    ELSE s1
          IN [st |-> [s2 EXCEPT !.slides =
                        IF s2.current # <<>> THEN Append(s2.slides, s2.current[1])
                        ELSE s2.slides],
              threw |-> FALSE]

(***************************************************************************)
(* Page geometry, in 1/1000 inch                                           *)
(***************************************************************************)
SAFE_MARGIN_BOTTOM == 700
BODY_TOP == 1600
LINE_HEIGHT == 350
BULLET_LINE_HEIGHT == 380
CODE_LINE_HEIGHT == 320
CODE_PADDING == 200
MIN_BLOCK_HEIGHT == 600
BLOCK_GAP == 200
MAX_IMAGE_HEIGHT == 3500
TABLE_ROW_HEIGHT == 450
TABLE_BASE_HEIGHT == 600

\* computeSafeArea: bottom = height - SAFE_MARGIN_BOTTOM
safeBottomOf(height) == height - SAFE_MARGIN_BOTTOM

(***************************************************************************)
(* The placement functions.  Each gives a RenderResult: kind, nextCursor,  *)
(* remainder, and drawn: the fragments handed to the page (addText,        *)
(* addImage, addTable), none on defer.                                     *)
(***************************************************************************)
Rendered(nextCursor, drawn) ==
  [kind |-> "rendered", nextCursor |-> nextCursor, remainder |-> <<>>, drawn |-> drawn]
SplitResult(nextCursor, remainder, drawn) ==
  [kind |-> "split", nextCursor |-> nextCursor, remainder |-> <<remainder>>, drawn |-> drawn]
Defer == [kind |-> "defer", nextCursor |-> 0, remainder |-> <<>>, drawn |-> <<>>]

\* Lines of the head of a split paragraph.
paragraphMaxLines(availableHeight) == MaxOf((availableHeight \div LINE_HEIGHT) - 1, 1)

\* A renderParagraph whose remainder starts one line late; C3 tells it from
\* renderParagraph.
renderParagraph_DropsALine(block, y, availableHeight) ==
  LET lines == split(block.text)
      neededHeight == MaxOf(Len(lines) * LINE_HEIGHT, MIN_BLOCK_HEIGHT)
      maxLines == paragraphMaxLines(availableHeight)
      head == join(sliceTo(lines, maxLines))
      tail == join(sliceFrom(lines, maxLines + 1))
  IN IF neededHeight <= availableHeight
     THEN Rendered(y + neededHeight, <<Paragraph(block.text)>>)
     ELSE IF availableHeight < MIN_BLOCK_HEIGHT THEN Defer
     ELSE SplitResult(y + availableHeight, Paragraph(trimStart(tail)), <<Paragraph(head)>>)

renderParagraph(block, y, availableHeight) ==
  LET lines == split(block.text)
      neededHeight == MaxOf(Len(lines) * LINE_HEIGHT, MIN_BLOCK_HEIGHT)
      maxLines == paragraphMaxLines(availableHeight)
      head == join(sliceTo(lines, maxLines))
      tail == join(sliceFrom(lines, maxLines))
  IN IF neededHeight <= availableHeight
     THEN Rendered(y + neededHeight, <<Paragraph(block.text)>>)
     ELSE IF availableHeight < MIN_BLOCK_HEIGHT THEN Defer
     ELSE SplitResult(y + availableHeight, Paragraph(trimStart(tail)), <<Paragraph(head)>>)

\* A bulletsMaxItems that holds no line back; C4 tells it from bulletsMaxItems.
bulletsMaxItems_AllThatFit(availableHeight) ==
  MaxOf(availableHeight \div BULLET_LINE_HEIGHT, 1)

\* Items of the head of a split bullet list.
bulletsMaxItems(availableHeight) == MaxOf((availableHeight \div BULLET_LINE_HEIGHT) - 1, 1)

\* A renderBullets whose remainder starts one item late; C5 tells it from
\* renderBullets.
renderBullets_SkipsAnItem(block, y, availableHeight) ==
  LET neededHeight == MaxOf(Len(block.items) * BULLET_LINE_HEIGHT, MIN_BLOCK_HEIGHT)
      maxItems == IF neededHeight <= availableHeight THEN Len(block.items)
                  ELSE MaxOf((availableHeight \div BULLET_LINE_HEIGHT) - 1, 1)
  IN IF Len(block.items) = 0 THEN Rendered(y, <<>>)
     ELSE IF neededHeight > availableHeight /\ availableHeight < MIN_BLOCK_HEIGHT THEN Defer
     ELSE IF maxItems = Len(block.items)
     THEN Rendered(y + MinOf(neededHeight, availableHeight),
                   <<Bullets(sliceTo(block.items, maxItems))>>)
     ELSE SplitResult(y + availableHeight, Bullets(sliceFrom(block.items, maxItems + 1)),
                      <<Bullets(sliceTo(block.items, maxItems))>>)

renderBullets(block, y, availableHeight) ==
  LET neededHeight == MaxOf(Len(block.items) * BULLET_LINE_HEIGHT, MIN_BLOCK_HEIGHT)
      maxItems == IF neededHeight <= availableHeight THEN Len(block.items)
                  ELSE bulletsMaxItems(availableHeight)
  IN IF Len(block.items) = 0 THEN Rendered(y, <<>>)
     ELSE IF neededHeight > availableHeight /\ availableHeight < MIN_BLOCK_HEIGHT THEN Defer
     ELSE IF maxItems = Len(block.items)
     THEN Rendered(y + MinOf(neededHeight, availableHeight),
                   <<Bullets(sliceTo(block.items, maxItems))>>)
     ELSE SplitResult(y + availableHeight, Bullets(sliceFrom(block.items, maxItems)),
                      <<Bullets(sliceTo(block.items, maxItems))>>)

renderImage(block, y, availableHeight) ==
  LET available == MaxOf(availableHeight, 0)
      height == MaxOf(MinOf(MAX_IMAGE_HEIGHT, available), MIN_BLOCK_HEIGHT)
  IN IF available < MIN_BLOCK_HEIGHT THEN Defer
     ELSE Rendered(y + height, <<block>>)

\* renderImage of part_000
renderImage000(block, y, availableHeight) ==
  LET height == MinOf(MAX_IMAGE_HEIGHT, availableHeight)
  IN IF height < MIN_BLOCK_HEIGHT THEN Defer
     ELSE Rendered(y + MaxOf(height, MIN_BLOCK_HEIGHT), <<block>>)

\* Lines of the head of a split code block.
codeLineLimit(availableHeight) ==
  MaxOf(((availableHeight - CODE_PADDING) \div CODE_LINE_HEIGHT) - 1, 1)

renderCode(block, y, availableHeight) ==
  LET lines == split(block.text)
      neededHeight == MaxOf(Len(lines) * CODE_LINE_HEIGHT + CODE_PADDING, MIN_BLOCK_HEIGHT)
      fits == neededHeight <= availableHeight
      lineLimit == IF fits THEN Len(lines) ELSE codeLineLimit(availableHeight)
      head == join(sliceTo(lines, lineLimit))
  IN IF neededHeight > availableHeight /\ availableHeight < MIN_BLOCK_HEIGHT THEN Defer
     ELSE IF fits
     THEN Rendered(y + MinOf(neededHeight, availableHeight), <<Code(head, block.language)>>)
     ELSE SplitResult(y + availableHeight,
                      Code(trimStart(join(sliceFrom(lines, lineLimit))), block.language),
                      <<Code(head, block.language)>>)

renderTable(block, y, availableHeight) ==
  LET neededHeight ==
        MaxOf(TABLE_BASE_HEIGHT + Len(block.rows) * TABLE_ROW_HEIGHT, MIN_BLOCK_HEIGHT)
      targetHeight == MaxOf(MinOf(neededHeight, availableHeight), MIN_BLOCK_HEIGHT)
  IN IF neededHeight > availableHeight /\ availableHeight < MIN_BLOCK_HEIGHT THEN Defer
     ELSE Rendered(y + targetHeight, <<block>>)

\* renderTable of part_000
renderTable000(block, y, availableHeight) ==
  LET neededHeight ==
        MaxOf(TABLE_BASE_HEIGHT + Len(block.rows) * TABLE_ROW_HEIGHT, MIN_BLOCK_HEIGHT)
      usedHeight == MinOf(neededHeight, MaxOf(availableHeight, MIN_BLOCK_HEIGHT))
  IN IF neededHeight > availableHeight /\ availableHeight < MIN_BLOCK_HEIGHT THEN Defer
     ELSE Rendered(y + usedHeight, <<block>>)

\* renderBlock of the file `file`
renderBlock(file, block, y, availableHeight) ==
  CASE block.type = "paragraph" -> renderParagraph(block, y, availableHeight)
    [] block.type = "bullets" -> renderBullets(block, y, availableHeight)
    [] block.type = "image" ->
         IF file = "txt2ppt" THEN renderImage(block, y, availableHeight)
         ELSE renderImage000(block, y, availableHeight)
    [] block.type = "code" -> renderCode(block, y, availableHeight)
    [] block.type = "table" ->
         IF file = "txt2ppt" THEN renderTable(block, y, availableHeight)
         ELSE renderTable000(block, y, availableHeight)
    [] OTHER -> Rendered(y, <<>>)

(***************************************************************************)
(* Inputs                                                                  *)
(***************************************************************************)
\* Bounds of the model.
MaxLines == 3
MaxBlocks == 3
MaxPages == 8

\* The lines the input texts are made of: one or two of every kind.
LinePool ==
  {<<"#", " ", "T">>,
   <<"#", "#", " ", "s">>,
   <<">", "n", "o", "t", "e", ":", " ", "n">>,
   <<">", "b", "g", ":", " ", "b">>,
   <<"!", "[", "a", "]", "(", "p", "#", "c", "o", "v", "e", "r", ")">>,
   <<"|", " ", "A", " ", "|">>,
   <<"|", "-", "|">>,
   <<"-", " ", "a">>,
   <<" ", " ", "1", ".", " ", "b">>,
   <<"x">>,
   <<" ", "y", " ">>,
   <<>>,
   <<BACKTICK, BACKTICK, BACKTICK, "j", "s">>,
   <<BACKTICK, BACKTICK, BACKTICK>>,
   <<" ", " ", "#", " ", "U">>,
   <<">", "b", "g", ":">>}

TextIntro ==
  <<"#", " ", "I", "n", "t", "r", "o", LF, LF, "H", "e", "l", "l", "o", " ", "w", "o", "r",
    "l", "d", LF, LF, "#", " ", "T", "w", "o", LF, "-", " ", "a", LF, "-", " ", "b", LF>>
TextTable ==
  <<"#", " ", "T", LF, "|", " ", "A", " ", "|", " ", "B", " ", "|", LF,
    "|", " ", "1", " ", "|", " ", "2", " ", "|", LF>>
TextImage ==
  <<"!", "[", "l", "o", "g", "o", "]", "(", "i", "m", "g", "/", "l", "o", "g", "o", ".",
    "p", "n", "g", "#", "c", "o", "v", "e", "r", ")">>
TextLongParagraph ==
  <<"#", " ", "P", LF, "a", LF, "b", LF, "c", LF, "d", LF, "e", LF, "f", LF, "g", LF,
    "h", LF, "i", LF, "j", LF, "k", LF, "l">>
TextCrLf ==
  <<"#", " ", "T", CR, LF, "x", CR, LF, "y", CR, "-", " ", "a">>
TextCode ==
  <<"#", " ", "C", LF, BACKTICK, BACKTICK, BACKTICK, "p", "y", LF, " ", " ", "a", LF, LF,
    " ", " ", "b", LF, "c", LF, "d", LF, BACKTICK, BACKTICK, BACKTICK>>
\* "# B" and the bullet lines "- 1" .. "- n"
RECURSIVE bulletLines(_)
bulletLines(n) ==
  IF n = 0 THEN <<>> ELSE bulletLines(n - 1) \o <<LF, "-", " ">> \o numberToString(n)
TextBullets50 == <<"#", " ", "B">> \o bulletLines(50)

TextTableSep ==
  <<"#", " ", "T", LF, "|", " ", "A", " ", "|", " ", "B", " ", "|", LF, "|", " ", "-",
    "-", "-", " ", "|", " ", ":", "-", ":", " ", "|", LF, "|", " ", "1", " ", "|", " ",
    "2", " ", "|">>
TextIndents ==
  <<"#", " ", "T", LF, " ", " ", " ", " ", " ", " ", " ", " ", " ", " ", "-", " ", "d",
    LF, TAB, TAB, "-", " ", "t", LF, " ", TAB, " ", "1", ".", " ", "n", LF, "-", " ",
    "z">>
TextOpenFence ==
  <<"#", " ", "T", LF, BACKTICK, BACKTICK, BACKTICK, "j", "s", LF, " ", " ", "a", LF,
    LF, "#", " ", "x", LF, "-", " ", "b", " ">>
TextNotes ==
  <<"#", " ", "T", LF, " ", " ", ">", "N", "O", "T", "E", ":", " ", "a", LF, ">", "N",
    "o", "t", "e", ":", " ", "b", LF, "#", " ", "U", LF, ">", "n", "o", "t", "e", ":",
    LF, ">", "n", "o", "t", "e", ":", " ", "c", LF, ">", "n", "o", "t", "e", ":">>
TextIndentedFence ==
  <<"x", LF, " ", " ", BACKTICK, BACKTICK, BACKTICK, LF, "y">>
TextImages ==
  <<"!", "[", "l", "o", "g", "o", "]", "(", "i", "m", "g", "/", "l", "o", "g", "o", ".",
    "p", "n", "g", "#", "c", "o", "v", "e", "r", ")", LF, " ", " ", "!", "[", " ", "a",
    " ", "b", " ", "]", "(", " ", "p", " ", "q", "#", "C", "O", "N", "T", "A", "I", "N",
    ")", " ", " ", LF, "!", "[", "x", "]", "(", "y", ".", "p", "n", "g", ")", LF, "!",
    "[", "a", "]", "(", "b", "]", "(", "c", "#", "C", "o", "v", "e", "r", " ", ")", LF,
    "!", "[", "]", "(", "#", "c", "o", "n", "t", "a", "i", "n", ")">>
TextOverwrites ==
  <<"#", " ", "T", LF, "#", "#", " ", "a", LF, "#", "#", " ", "b", LF, ">", "b", "g",
    ":", LF, ">", "b", "g", ":", " ", "x", LF, ">", "b", "g", ":", " ", "y", LF, "u",
    LF, " ", "v", " ", LF, "|", " ", "A", " ", "|", LF, "|", "1", "|", LF, "-", " ",
    "c", LF, "*", " ", "d", LF, "w", LF, LF, " ", ">", "b", "g", ":", " ", "z">>
\* A line for each of the eight rules, each with the marker of another rule in it.
TextMixedMarkup ==
  <<"#", " ", "T", LF, "x", LF, "#", "#", " ", "s", LF, "#", " ", "#", "#", " ", "t",
    LF, "#", "#", " ", "#", " ", "u", LF, ">", "n", "o", "t", "e", ":", " ", ">", "b",
    "g", ":", " ", "n", LF, ">", "b", "g", ":", " ", "-", " ", "b", LF, "!", "[", "a",
    "]", "(", "|", " ", "p", " ", "|", ")", LF, "|", " ", "-", " ", "a", " ", "|", LF,
    "-", " ", "|", " ", "c", " ", "|", LF, "1", ".", " ", "#", " ", "d", LF, BACKTICK,
    BACKTICK, BACKTICK, "#", "#", " ", "x", LF, "-", " ", "y", LF, BACKTICK, BACKTICK,
    BACKTICK>>

ScenarioTexts ==
  {TextIntro, TextTable, TextImage, TextLongParagraph, TextCrLf, TextCode, TextBullets50,
   TextTableSep, TextIndents, TextOpenFence, TextNotes, TextIndentedFence, TextImages,
   TextOverwrites, TextMixedMarkup}

\* Every text of at most MaxLines pool lines, and the scenarios.
InputTexts ==
  {join(ls) : ls \in UNION {[1..n -> LinePool] : n \in 0..MaxLines}} \cup ScenarioTexts

(***************************************************************************)
(* The command line: parseArguments                                        *)
(***************************************************************************)
\* VALID_LAYOUTS
VALID_LAYOUTS == {<<"L", "A", "Y", "O", "U", "T", "_", "1", "6", "x", "9">>, <<"L", "A", "Y", "O", "U", "T", "_", "4", "x", "3">>, <<"L", "A", "Y", "O", "U", "T", "_", "W", "I", "D", "E">>, <<"L", "A", "Y", "O", "U", "T", "_", "1", "6", "x", "1", "0">>}

\* parseArguments: options as it starts
DefaultOptions ==
  [inPath |-> Undefined, outPath |-> Undefined, layout |-> <<"L", "A", "Y", "O", "U", "T", "_", "1", "6", "x", "9">>,
   title |-> Undefined, author |-> Undefined, company |-> Undefined,
   background |-> Undefined]

ArgumentError == [threw |-> TRUE, options |-> DefaultOptions]

\* parseArguments: the switch on flagName
setOption(options, flagName, value) ==
  IF flagName = <<"i", "n">> THEN [threw |-> FALSE, options |-> [options EXCEPT !.inPath = value]]
  ELSE IF flagName = <<"o", "u", "t">>
  THEN [threw |-> FALSE, options |-> [options EXCEPT !.outPath = value]]
  ELSE IF flagName = <<"l", "a", "y", "o", "u", "t">>
  THEN IF value \notin VALID_LAYOUTS THEN ArgumentError
       ELSE [threw |-> FALSE, options |-> [options EXCEPT !.layout = value]]
  ELSE IF flagName = <<"t", "i", "t", "l", "e">>
  THEN [threw |-> FALSE, options |-> [options EXCEPT !.title = value]]
  ELSE IF flagName = <<"a", "u", "t", "h", "o", "r">>
  THEN [threw |-> FALSE, options |-> [options EXCEPT !.author = value]]
  ELSE IF flagName = <<"c", "o", "m", "p", "a", "n", "y">>
  THEN [threw |-> FALSE, options |-> [options EXCEPT !.company = value]]
  ELSE IF flagName = <<"b", "g">>
  THEN [threw |-> FALSE, options |-> [options EXCEPT !.background = value]]
  ELSE ArgumentError

\* parseArguments: the loop over args, i counted from 1
RECURSIVE parseArgumentsLoop(_, _, _)
parseArgumentsLoop(args, i, options) ==
  IF i > Len(args) THEN [threw |-> FALSE, options |-> options]
  ELSE LET token == args[i]
           pieces == splitOn(token, "=")
           flagName == sliceFrom(pieces[1], 2)
           fromEquals == Len(pieces) >= 2
           at == IF fromEquals THEN i ELSE i + 1
           value == IF fromEquals THEN pieces[2]
                    ELSE IF at <= Len(args) THEN args[at] ELSE Undefined
       IN IF ~startsWith(token, <<"-", "-">>) THEN ArgumentError
          ELSE IF ~Truthy(value) THEN ArgumentError
          ELSE LET r == setOption(options, flagName, value)
               IN IF r.threw THEN ArgumentError
                  ELSE parseArgumentsLoop(args, at + 1, r.options)

parseArguments(args) ==
  LET r == parseArgumentsLoop(args, 1, DefaultOptions)
  IN IF r.threw THEN ArgumentError
     ELSE IF ~Truthy(r.options.inPath) THEN ArgumentError
     ELSE IF ~Truthy(r.options.outPath) THEN ArgumentError
     ELSE IF ~endsWith(toLowerCase(r.options.outPath), <<".", "p", "p", "t", "x">>) THEN ArgumentError
     ELSE r

\* presLayout.height of the four layouts, in thousandths of an inch
layoutHeight(layout) ==
  IF layout = <<"L", "A", "Y", "O", "U", "T", "_", "1", "6", "x", "9">> THEN 5625
  ELSE IF layout = <<"L", "A", "Y", "O", "U", "T", "_", "1", "6", "x", "1", "0">> THEN 6250
  ELSE 7500

\* process.argv.slice(2): command lines that are accepted and command lines
\* that fail in each way parseArguments can fail
ArgvPool ==
  {<<>>,
   <<<<"-", "-", "i", "n">>, <<"a">>, <<"-", "-", "o", "u", "t">>, <<"o", ".", "p", "p", "t", "x">>>>,
   <<<<"-", "-", "i", "n", "=", "a">>, <<"-", "-", "o", "u", "t", "=", "O", ".", "P", "P", "T", "X">>, <<"-", "-", "l", "a", "y", "o", "u", "t", "=", "L", "A", "Y", "O", "U", "T", "_", "4", "x", "3">>>>,
   <<<<"-", "-", "o", "u", "t", "=", "o", ".", "p", "p", "t", "x">>, <<"-", "-", "i", "n", "=", "a">>, <<"-", "-", "l", "a", "y", "o", "u", "t">>, <<"L", "A", "Y", "O", "U", "T", "_", "1", "6", "x", "1", "0">>, <<"-", "-", "t", "i", "t", "l", "e", "=", "t", "=", "u">>>>,
   <<<<"a">>>>,
   <<<<"-", "-", "i", "n", "=", "a">>, <<"-", "-", "o", "u", "t">>>>,
   <<<<"-", "-", "i", "n", "=">>, <<"-", "-", "o", "u", "t", "=", "o", ".", "p", "p", "t", "x">>>>,
   <<<<"-", "-", "i", "n", "=", "a">>, <<"-", "-", "o", "u", "t", "=", "o", ".", "p", "p", "t", "x">>, <<"-", "-", "l", "a", "y", "o", "u", "t", "=", "A", "4">>>>,
   <<<<"-", "-", "i", "n", "=", "a">>, <<"-", "-", "o", "u", "t", "=", "o", ".", "p", "p", "t", "x">>, <<"-", "-", "x", "=", "1">>>>,
   <<<<"-", "-", "o", "u", "t", "=", "o", ".", "p", "p", "t", "x">>>>,
   <<<<"-", "-", "i", "n", "=", "a">>>>,
   <<<<"-", "-", "i", "n", "=", "a">>, <<"-", "-", "o", "u", "t", "=", "o", ".", "t", "x", "t">>>>}

\* presLayout.height: the three heights of the four supported layouts (5.625,
\* 6.25, 7.5 in) and three of shorter custom layouts.
LayoutHeights == {2500, 2950, 3300, 5625, 6250, 7500}

\* Blocks of hand-built slides (renderSlides is exported).
Item(c, t, lvl) == BulletItem(<<c>>, t, lvl)
RECURSIVE numberedItems(_)
numberedItems(n) ==
  IF n = 0 THEN <<>>
  ELSE Append(numberedItems(n - 1), BulletItem(numberToString(n), "bullet", 0))
RECURSIVE tableRows(_)
tableRows(n) ==
  IF n = 0 THEN <<>> ELSE Append(tableRows(n - 1), <<numberToString(n), <<"v">>>>)

BlockPool ==
  {Paragraph(<<"a">>),
   Paragraph(<<"a", LF, "b", LF, "c">>),
   Paragraph(<<"a", LF, LF, " ", "b">>),
   Bullets(<<>>),
   Bullets(<<Item("p", "bullet", 0), Item("q", "number", 1)>>),
   Bullets(<<Item("p", "bullet", 0), Item("q", "number", 1), Item("r", "bullet", 3),
             Item("p", "bullet", 0), Item("s", "number", 2)>>),
   Image(<<"a">>, <<"p">>, Undefined),
   Code(<<"x">>, Undefined),
   Code(<<"a", LF, LF, " ", " ", "b", LF, "c">>, <<"j", "s">>),
   Table(tableRows(1)),
   Table(tableRows(12))}

HandSlide(title, blocks, notes) ==
  [NewSlide(title) EXCEPT !.blocks = blocks, !.notes = notes]

SlideInputs ==
  {<<HandSlide(<<"T">>, bs, n)>> :
      bs \in UNION {[1..k -> BlockPool] : k \in 0..MaxBlocks}, n \in {Undefined, <<"n">>}}
  \cup {<<HandSlide(<<"B">>, <<Bullets(numberedItems(50))>>, Undefined)>>,
        <<HandSlide(<<"T">>, <<Paragraph(<<"a">>), Table(tableRows(12))>>, <<"n">>),
          HandSlide(<<"U">>, <<>>, Undefined),
          HandSlide(<<"V">>, <<Image(<<"a">>, <<"p">>, <<"c", "o", "v", "e", "r">>)>>, Undefined)>>}

(***************************************************************************)
(* The state                                                               *)
(***************************************************************************)
VARIABLES
  variant,     \* the file that runs: "txt2ppt" or "part_000"
  pc,          \* "parse", "layout", "render", "page", "place", "close", "done", "failed"
  rawText,     \* the argument of parseSlides
  lines,       \* parseSlides: lines
  index,       \* parseSlides: the loop index (1-based)
  state,       \* parseSlides: the parse state
  rules,       \* history: for every pass of the loop, the lines it took and the rule
  error,       \* "none", or what main caught: "TypeError", "NoSlides"
  specs,       \* renderSlides: specs
  specIndex,   \* renderSlides: the position of forEach
  safeBottom,  \* renderSlides: safeBottom
  queue,       \* renderSlides: queue (blocksQueue)
  qsrc,        \* history: for every queue entry, the index of the block it came from
  sequence,    \* renderSlides: sequence (part)
  firstSlide,  \* renderSlides: firstSlide (isFirstSlide)
  cursor,      \* renderSlides: cursor
  consumed,    \* renderSlides: consumed (consumedInThisSlide)
  pages,       \* history: the pages added, each with what was drawn on it
  finished,    \* history: for every slide done, the queue that was left
  argv,        \* main: process.argv without its first two entries
  exitCode,    \* main: process.exitCode (0 while it is not set)
  written      \* main: pptx.writeFile was called

parseVars == <<rawText, lines, index, state, rules>>
renderVars == <<specs, specIndex, safeBottom, queue, qsrc, sequence, firstSlide,
                cursor, consumed, pages, finished>>
cliVars == <<argv, exitCode, written>>
vars == <<variant, pc, error, parseVars, renderVars, cliVars>>

\* parseSlides or renderSlides called as a library: main does not run.
CliIdle == argv = <<>> /\ exitCode = 0 /\ written = FALSE

RenderIdle ==
  /\ specs = <<>> /\ specIndex = 0 /\ safeBottom = 0
  /\ queue = <<>> /\ qsrc = <<>> /\ sequence = 0 /\ firstSlide = FALSE
  /\ cursor = 0 /\ consumed = FALSE /\ pages = <<>> /\ finished = <<>>

\* main: the text is read and parseSlides is entered.
Init ==
  /\ variant \in {"txt2ppt", "part_000"}
  /\ rawText \in InputTexts
  /\ lines = split(normalize(rawText))
  /\ index = 1
  /\ state = NewParseState
  /\ rules = <<>>
  /\ pc = "parse"
  /\ error = "none"
  /\ RenderIdle
  /\ CliIdle

\* renderSlides called with hand-built slides.
RenderInit ==
  /\ variant \in {"txt2ppt", "part_000"}
  /\ rawText = <<>> /\ lines = <<>> /\ index = 0 /\ state = NewParseState /\ rules = <<>>
  /\ pc = "layout"
  /\ error = "none"
  /\ specs \in SlideInputs
  /\ specIndex = 0 /\ safeBottom = 0
  /\ queue = <<>> /\ qsrc = <<>> /\ sequence = 0 /\ firstSlide = FALSE
  /\ cursor = 0 /\ consumed = FALSE /\ pages = <<>> /\ finished = <<>>
  /\ CliIdle

(***************************************************************************)
(* parseSlides, one pass of its loop at a time                             *)
(***************************************************************************)
\* A ParseLine for which a heading line ends an open fence and starts a
\* slide; C20 tells it from ParseLine.
ParseLine_HeadingLeavesFence ==
  /\ pc = "parse"
  /\ index <= Len(lines)
  /\ LET st == IF state.codeBlock # <<>> /\ HEADING_REGEX(trim(lines[index]))
               THEN [state EXCEPT !.codeBlock = <<>>]
               ELSE state
         r == IF variant = "txt2ppt" THEN parseLine(st, lines, index)
              ELSE parseLine000(st, lines, index)
     IN IF r.threw
        THEN /\ pc' = "failed"
             /\ error' = "TypeError"
             /\ UNCHANGED <<index, state, rules>>
        ELSE /\ state' = r.st
             /\ index' = r.last + 1
             /\ rules' = Append(rules, [from |-> index, last |-> r.last, rule |-> r.rule])
             /\ UNCHANGED <<pc, error>>
  /\ UNCHANGED <<cliVars, variant, rawText, lines, renderVars>>

ParseLine ==
  /\ pc = "parse"
  /\ index <= Len(lines)
  /\ LET r == IF variant = "txt2ppt" THEN parseLine(state, lines, index)
              ELSE parseLine000(state, lines, index)
     IN IF r.threw
        THEN /\ pc' = "failed"
             /\ error' = "TypeError"
             /\ UNCHANGED <<index, state, rules>>
        ELSE /\ state' = r.st
             /\ index' = r.last + 1
             /\ rules' = Append(rules, [from |-> index, last |-> r.last, rule |-> r.rule])
             /\ UNCHANGED <<pc, error>>
  /\ UNCHANGED <<cliVars, variant, rawText, lines, renderVars>>

\* The end of parseSlides and what main does with the slides: no slide is an
\* error, otherwise renderSlides is called.
ParseEnd ==
  /\ pc = "parse"
  /\ index > Len(lines)
  /\ LET r == IF variant = "txt2ppt" THEN parseEnd(state) ELSE parseEnd000(state)
     IN IF r.threw
        THEN /\ pc' = "failed" /\ error' = "TypeError"
             /\ UNCHANGED <<state, specs>>
        ELSE /\ state' = r.st
             /\ specs' = r.st.slides
             /\ IF r.st.slides = <<>>
                THEN pc' = "failed" /\ error' = "NoSlides"
                ELSE pc' = "layout" /\ error' = error
  /\ UNCHANGED <<cliVars, variant, rawText, lines, index, rules, specIndex, safeBottom, queue,
                 qsrc, sequence, firstSlide, cursor, consumed, pages, finished>>

(***************************************************************************)
(* renderSlides                                                            *)
(***************************************************************************)
\* The head of renderSlides: the layout is set, computeSafeArea.
BeginRender ==
  /\ pc = "layout"
  /\ \E height \in LayoutHeights : safeBottom' = safeBottomOf(height)
  /\ specIndex' = 1
  /\ pc' = "render"
  /\ UNCHANGED <<cliVars, variant, error, parseVars, specs, queue, qsrc, sequence, firstSlide,
                 cursor, consumed, pages, finished>>

\* A StartSlide that does not mark the first page; C7 tells it from StartSlide.
StartSlide_NotFirst ==
  /\ pc = "render"
  /\ specIndex <= Len(specs)
  /\ queue' = specs[specIndex].blocks
  /\ qsrc' = [k \in 1..Len(specs[specIndex].blocks) |-> k]
  /\ sequence' = 0
  /\ firstSlide' = FALSE
  /\ pc' = "page"
  /\ UNCHANGED <<cliVars, variant, error, parseVars, specs, specIndex, safeBottom, cursor,
                 consumed, pages, finished>>

\* specs.forEach: the callback is entered for the next slide.
StartSlide ==
  /\ pc = "render"
  /\ specIndex <= Len(specs)
  /\ queue' = specs[specIndex].blocks
  /\ qsrc' = [k \in 1..Len(specs[specIndex].blocks) |-> k]
  /\ sequence' = 0
  /\ firstSlide' = TRUE
  /\ pc' = "page"
  /\ UNCHANGED <<cliVars, variant, error, parseVars, specs, specIndex, safeBottom, cursor,
                 consumed, pages, finished>>

\* forEach has run out of slides: renderSlides returns.
FinishRender ==
  /\ pc = "render"
  /\ specIndex > Len(specs)
  /\ pc' = "done"
  /\ UNCHANGED <<cliVars, variant, error, parseVars, renderVars>>

\* `${spec.title} (cont.)`
ContTitle(title) == title \o <<" ", "(", "c", "o", "n", "t", ".", ")">>

\* What one call of renderBlock draws, as entries of a page's record.
Placements(result, src, y, forced) ==
  [k \in 1..Len(result.drawn) |->
     [src |-> src, block |-> result.drawn[k], y |-> y, bottom |-> result.nextCursor,
      kind |-> result.kind, forced |-> forced]]

\* The slide's callback returns: the next slide is due.
EndSlide ==
  /\ finished' = Append(finished, [spec |-> specIndex, queue |-> queue', qsrc |-> qsrc'])
  /\ specIndex' = specIndex + 1
  /\ pc' = "render"

\* The test of the outer while loop and, when it holds, the new page with its
\* background, title and subtitle; cursor and consumed are reset.
OpenPage ==
  /\ pc = "page"
  /\ IF Len(queue) > 0 \/ firstSlide
     THEN /\ sequence < MaxPages
          /\ pages' = Append(pages,
               [spec |-> specIndex,
                title |-> IF sequence = 0 THEN specs[specIndex].title
                          ELSE ContTitle(specs[specIndex].title),
                subtitle |-> specs[specIndex].subtitle,
                background |-> specs[specIndex].background,
                notes |-> Undefined,
                placed |-> <<>>])
          /\ cursor' = BODY_TOP
          /\ consumed' = FALSE
          /\ pc' = "place"
          /\ UNCHANGED <<queue, qsrc, specIndex, finished>>
     ELSE /\ UNCHANGED <<queue, qsrc, pages, cursor, consumed>>
          /\ EndSlide
  /\ UNCHANGED <<cliVars, variant, error, parseVars, specs, safeBottom, sequence, firstSlide>>

\* A PlaceBlock that queues the remainder of a split behind the other blocks;
\* C23 tells it from PlaceBlock.
PlaceBlock_RemainderToTheBack ==
  /\ pc = "place"
  /\ IF Len(queue) = 0
     THEN pc' = "close" /\ UNCHANGED <<queue, qsrc, cursor, consumed, pages>>
     ELSE LET block == queue[1]
              result == renderBlock(variant, block, cursor, safeBottom - cursor)
          IN IF result.kind = "defer"
             THEN pc' = "close" /\ UNCHANGED <<queue, qsrc, cursor, consumed, pages>>
             ELSE /\ queue' = Tail(queue) \o result.remainder
                  /\ qsrc' = IF result.kind = "split" THEN Tail(qsrc) \o <<qsrc[1]>>
                             ELSE Tail(qsrc)
                  /\ consumed' = TRUE
                  /\ cursor' = result.nextCursor + BLOCK_GAP
                  /\ pages' = [pages EXCEPT ![Len(pages)].placed =
                                 @ \o Placements(result, qsrc[1], cursor, FALSE)]
                  /\ pc' = IF cursor' >= safeBottom - BLOCK_GAP THEN "close" ELSE "place"
  /\ UNCHANGED <<cliVars, variant, error, parseVars, specs, specIndex, safeBottom, sequence,
                 firstSlide, finished>>

\* A PlaceBlock without the test of the cursor after a placement: the loop
\* goes on to the next block even when the page is full; C30 tells it from
\* PlaceBlock.
PlaceBlock_GoesOnAtTheBottom ==
  /\ pc = "place"
  /\ IF Len(queue) = 0
     THEN pc' = "close" /\ UNCHANGED <<queue, qsrc, cursor, consumed, pages>>
     ELSE LET block == queue[1]
              result == renderBlock(variant, block, cursor, safeBottom - cursor)
          IN IF result.kind = "defer"
             THEN pc' = "close" /\ UNCHANGED <<queue, qsrc, cursor, consumed, pages>>
             ELSE /\ queue' = result.remainder \o Tail(queue)
                  /\ qsrc' = IF result.kind = "split" THEN qsrc ELSE Tail(qsrc)
                  /\ consumed' = TRUE
                  /\ cursor' = result.nextCursor + BLOCK_GAP
                  /\ pages' = [pages EXCEPT ![Len(pages)].placed =
                                 @ \o Placements(result, qsrc[1], cursor, FALSE)]
                  /\ pc' = "place"
  /\ UNCHANGED <<cliVars, variant, error, parseVars, specs, specIndex, safeBottom, sequence,
                 firstSlide, finished>>

\* One pass of the inner while loop, its test included.
PlaceBlock ==
  /\ pc = "place"
  /\ IF Len(queue) = 0
     THEN pc' = "close" /\ UNCHANGED <<queue, qsrc, cursor, consumed, pages>>
     ELSE LET block == queue[1]
              result == renderBlock(variant, block, cursor, safeBottom - cursor)
          IN IF result.kind = "defer"
             THEN pc' = "close" /\ UNCHANGED <<queue, qsrc, cursor, consumed, pages>>
             ELSE /\ queue' = result.remainder \o Tail(queue)
                  /\ qsrc' = IF result.kind = "split" THEN qsrc ELSE Tail(qsrc)
                  /\ consumed' = TRUE
                  /\ cursor' = result.nextCursor + BLOCK_GAP
                  /\ pages' = [pages EXCEPT ![Len(pages)].placed =
                                 @ \o Placements(result, qsrc[1], cursor, FALSE)]
                  /\ pc' = IF cursor' >= safeBottom - BLOCK_GAP THEN "close" ELSE "place"
  /\ UNCHANGED <<cliVars, variant, error, parseVars, specs, specIndex, safeBottom, sequence,
                 firstSlide, finished>>

\* The forced placement of the head block at the cursor: the queue after it and
\* what it drew.
forcedPlacement(file, q, src, y, bottom) ==
  LET forced == renderBlock(file, q[1], y, bottom - y)
  IN [kind |-> forced.kind,
      queue |-> IF forced.kind = "rendered" THEN Tail(q)
                ELSE IF forced.kind = "split" THEN forced.remainder \o Tail(q)
                ELSE q,
      qsrc |-> IF forced.kind = "rendered" THEN Tail(src) ELSE src,
      placed |-> Placements(forced, src[1], y, TRUE)]

\* The end of the outer loop's body in txt2ppt.ts, after the counters: what is
\* left of the queue, what was drawn, and whether the loop is left (break).
closePage(q, src, wasConsumed, y, bottom) ==
  IF Len(q) = 0 THEN [queue |-> q, qsrc |-> src, placed |-> <<>>, exit |-> TRUE]
  ELSE IF ~wasConsumed
  THEN IF y # BODY_TOP THEN [queue |-> q, qsrc |-> src, placed |-> <<>>, exit |-> FALSE]
       ELSE LET f == forcedPlacement("txt2ppt", q, src, y, bottom)
            IN [queue |-> f.queue, qsrc |-> f.qsrc, placed |-> f.placed,
                exit |-> f.kind = "defer"]
  ELSE [queue |-> q, qsrc |-> src, placed |-> <<>>, exit |-> FALSE]

\* The same of part_000.
closePage000(q, src, wasConsumed, y, bottom) ==
  IF ~wasConsumed /\ Len(q) > 0
  THEN IF y # BODY_TOP THEN [queue |-> q, qsrc |-> src, placed |-> <<>>, exit |-> FALSE]
       ELSE LET f == forcedPlacement("part_000", q, src, y, bottom)
            IN [queue |-> f.queue, qsrc |-> f.qsrc, placed |-> f.placed,
                exit |-> Len(f.queue) = 0]
  ELSE [queue |-> q, qsrc |-> src, placed |-> <<>>, exit |-> Len(q) = 0]

\* A ClosePage that adds the notes to every page; C16 tells it from ClosePage.
ClosePage_NotesOnEveryPage ==
  /\ pc = "close"
  /\ sequence' = sequence + 1
  /\ firstSlide' = FALSE
  /\ LET c == IF variant = "txt2ppt"
              THEN closePage(queue, qsrc, consumed, cursor, safeBottom)
              ELSE closePage000(queue, qsrc, consumed, cursor, safeBottom)
     IN /\ queue' = c.queue
        /\ qsrc' = c.qsrc
        /\ pages' = [pages EXCEPT
                       ![Len(pages)].notes =
                          IF Truthy(specs[specIndex].notes)
                          THEN specs[specIndex].notes ELSE @,
                       ![Len(pages)].placed = @ \o c.placed]
        /\ IF c.exit
           THEN EndSlide
           ELSE pc' = "page" /\ UNCHANGED <<specIndex, finished>>
  /\ UNCHANGED <<cliVars, variant, error, parseVars, specs, safeBottom, cursor, consumed>>

\* After the inner loop: the notes go to the first page, the counters move on,
\* and the rest of the loop body runs.
ClosePage ==
  /\ pc = "close"
  /\ sequence' = sequence + 1
  /\ firstSlide' = FALSE
  /\ LET c == IF variant = "txt2ppt"
              THEN closePage(queue, qsrc, consumed, cursor, safeBottom)
              ELSE closePage000(queue, qsrc, consumed, cursor, safeBottom)
     IN /\ queue' = c.queue
        /\ qsrc' = c.qsrc
        /\ pages' = [pages EXCEPT
                       ![Len(pages)].notes =
                          IF firstSlide /\ Truthy(specs[specIndex].notes)
                          THEN specs[specIndex].notes ELSE @,
                       ![Len(pages)].placed = @ \o c.placed]
        /\ IF c.exit
           THEN EndSlide
           ELSE pc' = "page" /\ UNCHANGED <<specIndex, finished>>
  /\ UNCHANGED <<cliVars, variant, error, parseVars, specs, safeBottom, cursor, consumed>>

ParseNext == ParseLine \/ ParseEnd
RenderNext ==
  BeginRender \/ StartSlide \/ OpenPage \/ PlaceBlock \/ ClosePage \/ FinishRender

\* main: parseSlides, then renderSlides
Next == ParseNext \/ RenderNext
Spec == Init /\ [][Next]_vars

\* renderSlides on hand-built slides
RenderSpec == RenderInit /\ [][RenderNext]_vars
\* parseSlides alone
ParseSpec == Init /\ [][ParseNext]_vars

(***************************************************************************)
(* main: the command line, the files, parseSlides, renderSlides, writeFile *)
(***************************************************************************)
\* The files main is pointed at: the scenarios, an empty file and a file that
\* opens a fence before any heading.
MainTexts == ScenarioTexts \cup {<<>>, <<BACKTICK, BACKTICK, BACKTICK>>}

\* main is entered: rawText is what the input file holds, nothing is read yet.
MainInit ==
  /\ variant \in {"txt2ppt", "part_000"}
  /\ rawText \in MainTexts
  /\ lines = <<>>
  /\ index = 0
  /\ state = NewParseState
  /\ rules = <<>>
  /\ argv \in ArgvPool
  /\ pc = "args"
  /\ error = "none"
  /\ RenderIdle
  /\ exitCode = 0
  /\ written = FALSE

\* const cli = parseArguments(process.argv)
ParseArguments ==
  /\ pc = "args"
  /\ IF parseArguments(argv).threw
     THEN pc' = "failed" /\ error' = "ArgumentError"
     ELSE pc' = "paths" /\ error' = error
  /\ UNCHANGED <<cliVars, variant, parseVars, renderVars>>

\* await validatePaths(cli): what fs.stat says of the input file and of the
\* output directory is the file system's choice.
ValidatePaths ==
  /\ pc = "paths"
  /\ \E inputIsFile \in BOOLEAN, outDirIsDirectory \in BOOLEAN :
       IF inputIsFile /\ outDirIsDirectory
       THEN pc' = "read" /\ error' = error
       ELSE pc' = "failed" /\ error' = "PathError"
  /\ UNCHANGED <<cliVars, variant, parseVars, renderVars>>

\* await fs.readFile(inPath, "utf8"), and parseSlides is entered.
ReadFile ==
  /\ pc = "read"
  /\ \E readable \in BOOLEAN :
       IF readable
       THEN /\ lines' = split(normalize(rawText))
            /\ index' = 1
            /\ pc' = "parse"
            /\ error' = error
       ELSE /\ pc' = "failed" /\ error' = "ReadError"
            /\ UNCHANGED <<lines, index>>
  /\ UNCHANGED <<cliVars, variant, rawText, state, rules, renderVars>>

\* The head of renderSlides as main calls it: the layout is cli.layout.
BeginRenderMain ==
  /\ pc = "layout"
  /\ safeBottom' = safeBottomOf(layoutHeight(parseArguments(argv).options.layout))
  /\ specIndex' = 1
  /\ pc' = "render"
  /\ UNCHANGED <<cliVars, variant, error, parseVars, specs, queue, qsrc, sequence,
                 firstSlide, cursor, consumed, pages, finished>>

\* A call into the library (addSlide, addText, addImage, addTable) throws:
\* renderSlides rejects and main's catch takes over.
LibraryThrows ==
  /\ pc \in {"page", "place"}
  /\ pc' = "failed"
  /\ error' = "RenderError"
  /\ UNCHANGED <<cliVars, variant, parseVars, renderVars>>

\* A writeFile in a finally block: it runs after a failure too; C17 tells it
\* from WriteFile.
WriteFile_InFinally ==
  /\ pc \in {"done", "failed"}
  /\ ~written
  /\ written' = TRUE
  /\ \E ok \in BOOLEAN :
       IF ok /\ pc = "done"
       THEN pc' = "exit" /\ error' = error
       ELSE pc' = "failed" /\ error' = IF pc = "done" THEN "WriteError" ELSE error
  /\ UNCHANGED <<argv, exitCode, variant, parseVars, renderVars>>

\* await pptx.writeFile({ fileName: outPath }): it resolves or rejects.
WriteFile ==
  /\ pc = "done"
  /\ ~written
  /\ written' = TRUE
  /\ \E ok \in BOOLEAN :
       IF ok
       THEN pc' = "exit" /\ error' = error
       ELSE pc' = "failed" /\ error' = "WriteError"
  /\ UNCHANGED <<argv, exitCode, variant, parseVars, renderVars>>

\* catch (error): console.error, process.exitCode = 1
CatchError ==
  /\ pc = "failed"
  /\ exitCode' = 1
  /\ pc' = "exit"
  /\ UNCHANGED <<argv, written, variant, error, parseVars, renderVars>>

MainNext ==
  \/ ParseArguments \/ ValidatePaths \/ ReadFile
  \/ ParseLine \/ ParseEnd
  \/ BeginRenderMain \/ StartSlide \/ OpenPage \/ PlaceBlock \/ ClosePage \/ FinishRender
  \/ LibraryThrows \/ WriteFile \/ CatchError

\* main, from the command line to the exit code
MainSpec == MainInit /\ [][MainNext]_vars

(***************************************************************************)
(* What the history says: the pages of a slide, the fragments of a block   *)
(***************************************************************************)
RECURSIVE Flatten(_)
Flatten(ss) == IF ss = <<>> THEN <<>> ELSE Head(ss) \o Flatten(Tail(ss))

\* The pages added for slide i, in order.
PagesOf(i) == SelectSeq(pages, LAMBDA p : p.spec = i)
\* Everything drawn for slide i, in page order.
AllPlaced(i) ==
  LET ps == PagesOf(i) IN Flatten([p \in 1..Len(ps) |-> ps[p].placed])
\* The fragments of block k of slide i that were drawn, in page order.
PlacedOf(i, k) == SelectSeq(AllPlaced(i), LAMBDA e : e.src = k)

InSlide == pc \in {"page", "place", "close"}
\* Slide i has been entered; it is finished when i < specIndex.
Started(i) == i < specIndex \/ (i = specIndex /\ InSlide)
Finished(i) == i >= 1 /\ i < specIndex /\ i <= Len(finished)
\* The queue of slide i as it stands (running) or as it was left (finished).
QueueOf(i) == IF i = specIndex /\ InSlide THEN queue ELSE finished[i].queue
QsrcOf(i) == IF i = specIndex /\ InSlide THEN qsrc ELSE finished[i].qsrc
\* What is still queued of block k of slide i: no block or one.
PendingOf(i, k) ==
  LET q == QueueOf(i)
      src == QsrcOf(i)
      at == {j \in 1..Len(q) : src[j] = k}
  IN IF at = {} THEN <<>> ELSE <<q[Min(at)]>>

\* The work a queue holds: one per block and one per line or item.
BlockWeight(b) ==
  1 + (CASE b.type \in {"paragraph", "code"} -> Len(split(b.text))
         [] b.type = "bullets" -> Len(b.items)
         [] OTHER -> 0)
RECURSIVE Weight(_)
Weight(q) == IF q = <<>> THEN 0 ELSE BlockWeight(Head(q)) + Weight(Tail(q))

\* The height a block takes at least.
NeededHeight(b) ==
  CASE b.type = "table" ->
         MaxOf(TABLE_BASE_HEIGHT + Len(b.rows) * TABLE_ROW_HEIGHT, MIN_BLOCK_HEIGHT)
    [] b.type = "image" -> MIN_BLOCK_HEIGHT
    [] b.type = "paragraph" -> MaxOf(Len(split(b.text)) * LINE_HEIGHT, MIN_BLOCK_HEIGHT)
    [] b.type = "code" ->
         MaxOf(Len(split(b.text)) * CODE_LINE_HEIGHT + CODE_PADDING, MIN_BLOCK_HEIGHT)
    [] b.type = "bullets" -> MaxOf(Len(b.items) * BULLET_LINE_HEIGHT, MIN_BLOCK_HEIGHT)

(***************************************************************************)
(* C1.  Pagination always terminates: the outer page loop of renderSlides  *)
(* exits after finitely many pages, also when the head block is deferred   *)
(* on an otherwise empty page.  Stated with a variant: the work in the     *)
(* queue is a natural number; every placement lowers it, and a pass of the *)
(* page loop that goes on to a further page has lowered it, in its inner   *)
(* loop (consumed) or by its forced placement.  A pass that goes on with   *)
(* the queue as it found it repeats for ever.                              *)
(***************************************************************************)
C1_EveryPageLowersTheWork ==
  [][/\ (pc = "place" /\ queue' # queue) => Weight(queue') < Weight(queue)
     /\ (pc = "close" /\ pc' = "page") => (consumed \/ Weight(queue') < Weight(queue))]_vars

(***************************************************************************)
(* C2.  No content is lost by pagination: when renderSlides finishes a     *)
(* slide every block has been placed on some page, whole or as fragments,  *)
(* in the original order; the only thing that may be left unplaced is the  *)
(* rest of one head block whose forced placement was rejected, and the     *)
(* blocks behind it are still paginated.                                   *)
(***************************************************************************)
C2_NoContentLost ==
  \A i \in 1..Len(specs) : Finished(i) =>
    /\ Len(finished[i].queue) <= 1
    /\ \A k \in 1..Len(specs[i].blocks) :
         \/ PlacedOf(i, k) # <<>>
         \/ (specs[i].blocks[k].type = "bullets" /\ specs[i].blocks[k].items = <<>>)
         \/ finished[i].qsrc = <<k>>
    /\ LET all == AllPlaced(i)
       IN \A a, b \in 1..Len(all) : a < b => all[a].src <= all[b].src
(***************************************************************************)
(* C4.  A Bullets block that does not fit is split at an item boundary.    *)
(* The claim: the head holds as many items as fit the available height,    *)
(* so 50 items on a page with room for exactly 10 bullet lines leave 10    *)
(* items on the page and 40 in the remainder.                              *)
(***************************************************************************)
IsSplitBullets(e) == e.block.type = "bullets" /\ e.kind = "split"
FiftyItems(i) ==
  /\ Len(specs[i].blocks) = 1
  /\ specs[i].blocks[1].type = "bullets"
  /\ Len(specs[i].blocks[1].items) = 50
RoomForTen(e) == (safeBottom - e.y) \div BULLET_LINE_HEIGHT = 10

C4_HeadHoldsAllThatFit ==
  \A i \in 1..Len(specs) : Started(i) =>
    \A n \in 1..Len(AllPlaced(i)) :
      LET e == AllPlaced(i)[n] IN
      /\ IsSplitBullets(e) =>
           Len(e.block.items) = (safeBottom - e.y) \div BULLET_LINE_HEIGHT
      /\ (FiftyItems(i) /\ n = 1 /\ RoomForTen(e)) =>
           /\ Len(e.block.items) = 10
           /\ Len(PlacedOf(i, 1)) = 1 =>
                (PendingOf(i, 1) # <<>> /\ Len(PendingOf(i, 1)[1].items) = 40)

\* C4 as the code has it: one line of the available height is held back,
\* so the head of a split holds one item fewer than fit (and never fewer
\* than one); 50 items with room for 10 leave 9 on the page and 41 behind.
C4_HeadHoldsOneFewer ==
  \A i \in 1..Len(specs) : Started(i) =>
    \A n \in 1..Len(AllPlaced(i)) :
      LET e == AllPlaced(i)[n] IN
      /\ IsSplitBullets(e) =>
           Len(e.block.items) =
             MaxOf(((safeBottom - e.y) \div BULLET_LINE_HEIGHT) - 1, 1)
      /\ (FiftyItems(i) /\ n = 1 /\ RoomForTen(e)) =>
           /\ Len(e.block.items) = 9
           /\ e.block.items = SubSeq(specs[i].blocks[1].items, 1, 9)
           /\ Len(PlacedOf(i, 1)) = 1 =>
                /\ PendingOf(i, 1) # <<>>
                /\ PendingOf(i, 1)[1].items = SubSeq(specs[i].blocks[1].items, 10, 50)

\* 50 items met a page with room for 10 lines; the first fragment is drawn
\* and the remainder is queued.
C4_FiftyItemsSplit ==
  /\ InSlide
  /\ FiftyItems(specIndex)
  /\ Len(PlacedOf(specIndex, 1)) = 1
  /\ RoomForTen(PlacedOf(specIndex, 1)[1])
  /\ IsSplitBullets(PlacedOf(specIndex, 1)[1])
  /\ PendingOf(specIndex, 1) # <<>>

(***************************************************************************)
(* C5.  Splitting Bullets loses nothing: the items of the fragments drawn  *)
(* for a Bullets block, in page order, followed by the items of what is    *)
(* still queued of it, are the items of the original block, in order and   *)
(* with kind, number, text and indentLevel unchanged.  (The part of a      *)
(* block that a rejected forced placement leaves behind stays in the       *)
(* queue that the slide ends with and is counted there.)                   *)
(***************************************************************************)
RECURSIVE ItemsOf(_)
ItemsOf(frags) ==
  IF frags = <<>> THEN <<>> ELSE Head(frags).block.items \o ItemsOf(Tail(frags))

OneOversizedBlock(i) ==
  /\ Len(specs[i].blocks) = 1
  /\ specs[i].blocks[1].type \in {"table", "image"}
  /\ NeededHeight(specs[i].blocks[1]) > safeBottom - BODY_TOP

C6_OversizedPlacedOnce ==
  \A i \in 1..Len(specs) : (Started(i) /\ OneOversizedBlock(i)) =>
    /\ Len(PlacedOf(i, 1)) <= 1
    /\ PlacedOf(i, 1) # <<>> => PendingOf(i, 1) = <<>>
    /\ Finished(i) =>
         /\ Len(PlacedOf(i, 1)) = 1
         /\ PlacedOf(i, 1)[1].y = BODY_TOP
         /\ PlacedOf(i, 1)[1].block = specs[i].blocks[1]
         /\ finished[i].queue = <<>>

(***************************************************************************)
(* C7.  Every slide gets at least one page: a slide with no blocks gets    *)
(* exactly one page, which carries its title, subtitle, background and     *)
(* notes and no block; a further page is begun only while blocks remain    *)
(* in the queue.                                                           *)
(***************************************************************************)
C7_AtLeastOnePage ==
  /\ \A i \in 1..Len(specs) : Finished(i) =>
       /\ Len(PagesOf(i)) >= 1
       /\ specs[i].blocks = <<>> =>
            /\ Len(PagesOf(i)) = 1
            /\ PagesOf(i)[1] =
                 [spec |-> i,
                  title |-> specs[i].title,
                  subtitle |-> specs[i].subtitle,
                  background |-> specs[i].background,
                  notes |-> IF Truthy(specs[i].notes) THEN specs[i].notes ELSE Undefined,
                  placed |-> <<>>]
  \* a page after the first, as the page loop left it open: the queue that
  \* let it in is not empty
  /\ (pc = "place" /\ ~consumed /\ sequence >= 1) => queue # <<>>
  /\ \A i \in 1..Len(specs) : (i = specIndex /\ InSlide /\ sequence >= 1) =>
       Len(PagesOf(i)) >= 1

\* A slide without blocks has been rendered, with notes, after a slide that
\* took more than one page.
C7_EmptySlideRendered ==
  \E i \in 1..Len(specs) :
    /\ Finished(i)
    /\ specs[i].blocks = <<>>
    /\ Len(PagesOf(i)) = 1
    /\ \E j \in 1..Len(specs) : Finished(j) /\ Len(PagesOf(j)) >= 2
(***************************************************************************)
(* C3.  Splitting a Paragraph loses no line.  For a Paragraph that         *)
(* parseSlides produced, on any page height: the lines of the fragments    *)
(* drawn, in page order, followed by the lines of what is still queued of  *)
(* it, are exactly the lines of the original paragraph.                    *)
(***************************************************************************)
TextsOf(frags) == [n \in 1..Len(frags) |-> frags[n].block.text]
LinesOfTexts(texts) == Flatten([n \in 1..Len(texts) |-> split(texts[n])])
\* The texts of the fragments of block k of slide i, the queued rest last.
PartsOf(i, k) ==
  TextsOf(PlacedOf(i, k)) \o
    (IF PendingOf(i, k) = <<>> THEN <<>> ELSE <<PendingOf(i, k)[1].text>>)
FromParser == rawText # <<>>

\* The claim goes on: so concatenating the fragment texts and trimming
\* whitespace reproduces the original text trimmed the same way.
C3_ConcatReproducesText ==
  FromParser =>
    \A i \in 1..Len(specs) : Started(i) =>
      \A k \in 1..Len(specs[i].blocks) :
        specs[i].blocks[k].type = "paragraph" =>
          /\ LinesOfTexts(PartsOf(i, k)) = split(specs[i].blocks[k].text)
          /\ trim(Flatten(PartsOf(i, k))) = trim(specs[i].blocks[k].text)

\* C3 as the code has it: the line break between two fragments is in
\* neither text, so it is joining the fragment texts with a line feed that
\* reproduces the original text.
C3_JoinReproducesText ==
  FromParser =>
    \A i \in 1..Len(specs) : Started(i) =>
      \A k \in 1..Len(specs[i].blocks) :
        specs[i].blocks[k].type = "paragraph" =>
          /\ \A n \in 1..Len(PlacedOf(i, k)) : PlacedOf(i, k)[n].block.type = "paragraph"
          /\ LinesOfTexts(PartsOf(i, k)) = split(specs[i].blocks[k].text)
          /\ join(PartsOf(i, k)) = specs[i].blocks[k].text

\* A parsed Paragraph went out in three fragments or more and nothing of it
\* is left.
C3_ParagraphSplitAndDone ==
  /\ FromParser
  /\ \E i \in 1..Len(specs) : Finished(i) /\
       \E k \in 1..Len(specs[i].blocks) :
         /\ specs[i].blocks[k].type = "paragraph"
         /\ Len(PlacedOf(i, k)) >= 3
         /\ PendingOf(i, k) = <<>>
(***************************************************************************)
(* What the parser's history says: the passes of its loop, by rule         *)
(***************************************************************************)
\* parseSlides has returned.
Parsed == pc # "parse" /\ error # "TypeError"
\* The passes that took a heading line, in source order.
HeadingPasses ==
  LET at == [n \in 1..Len(rules) |-> n]
  IN SelectSeq(at, LAMBDA n : rules[n].rule = "heading")
\* Rules whose line is content.
ContentRules ==
  {"subtitle", "note", "background", "image", "table", "bullets", "paragraph", "title",
   "fenceOpen", "codeLine", "fenceClose"}
BeforeFirstHeading(n) == \A h \in 1..Len(HeadingPasses) : n < HeadingPasses[h]
\* Some content line comes before the first heading.
LeadingContent ==
  \E n \in 1..Len(rules) : rules[n].rule \in ContentRules /\ BeforeFirstHeading(n)
ImplicitSlides == IF LeadingContent THEN 1 ELSE 0
\* The passes between the heading of slide j (the start, for the implicit
\* slide) and the next heading.
SegmentOf(j) ==
  LET h == j - ImplicitSlides
      lo == IF h = 0 THEN 0 ELSE HeadingPasses[h]
      hi == IF h + 1 <= Len(HeadingPasses) THEN HeadingPasses[h + 1] ELSE Len(rules) + 1
      at == [n \in 1..Len(rules) |-> n]
  IN SelectSeq(at, LAMBDA n : lo < n /\ n < hi)
\* The type of the block a pass gives, "" when it gives none.  A fence that
\* is never closed gives its Code block at the end of the input.
BlockTypeOfPass(n) ==
  CASE rules[n].rule \in {"image", "table", "bullets"} -> rules[n].rule
    [] rules[n].rule \in {"paragraph", "title"} -> "paragraph"
    [] rules[n].rule = "fenceClose" -> "code"
    [] rules[n].rule = "fenceOpen" ->
         IF \E m \in (n + 1)..Len(rules) : rules[m].rule = "fenceClose" THEN "" ELSE "code"
    [] OTHER -> ""
BlockTypesOfSegment(j) ==
  LET seg == SegmentOf(j)
      types == [n \in 1..Len(seg) |-> BlockTypeOfPass(seg[n])]
  IN SelectSeq(types, LAMBDA t : t # "")
\* The text of the lines a pass took, each trimmed, joined by line feeds.
TrimmedTextOfPass(n) ==
  join([m \in 1..(rules[n].last - rules[n].from + 1) |-> trim(lines[rules[n].from + m - 1])])

(***************************************************************************)
(* C8.  parseSlides is total: for every input text it returns a slide      *)
(* sequence and never throws, also when a code fence is opened (and closed *)
(* or left open to the end of the input) before anything has made a slide. *)
(***************************************************************************)
C8_ParseSlidesNeverThrows ==
  /\ error # "TypeError"
  /\ \A n \in 1..Len(rules) : rules[n].from <= rules[n].last
  /\ Parsed => (index = Len(lines) + 1 /\ specs = state.slides)
(***************************************************************************)
(* C9.  parseSlides returns one slide per heading line outside a code      *)
(* fence, in source order, and one implicit slide before them exactly when *)
(* some content line comes before the first heading; every block is on the *)
(* slide of the nearest heading before it, and text before any heading is  *)
(* a Paragraph of the implicit slide.  The text "# Intro", blank, "Hello   *)
(* world", blank, "# Two", "- a", "- b" gives the slides Intro with the    *)
(* Paragraph "Hello world" and Two with the Bullets a, b.                  *)
(***************************************************************************)
IntroSlides ==
  <<[NewSlide(<<"I", "n", "t", "r", "o">>) EXCEPT
       !.blocks = <<Paragraph(<<"H", "e", "l", "l", "o", " ", "w", "o", "r", "l", "d">>)>>],
    [NewSlide(<<"T", "w", "o">>) EXCEPT
       !.blocks = <<Bullets(<<BulletItem(<<"a">>, "bullet", 0),
                              BulletItem(<<"b">>, "bullet", 0)>>)>>]>>

C9_OneSlidePerHeading ==
  Parsed =>
    /\ Len(specs) = Len(HeadingPasses) + ImplicitSlides
    /\ \A j \in 1..Len(specs) : j - ImplicitSlides <= Len(HeadingPasses) =>
         [k \in 1..Len(specs[j].blocks) |-> specs[j].blocks[k].type] = BlockTypesOfSegment(j)
    /\ \A n \in 1..Len(rules) :
         (rules[n].rule \in {"paragraph", "title"} /\ BeforeFirstHeading(n)) =>
           /\ specs # <<>>
           /\ \E k \in 1..Len(specs[1].blocks) :
                specs[1].blocks[k] = Paragraph(TrimmedTextOfPass(n))
    /\ rawText = TextIntro => specs = IntroSlides

(***************************************************************************)
(* C10.  Every slide that parseSlides returns has a title that is not      *)
(* empty: the trimmed text of its heading, or, for the implicit slide and  *)
(* for a heading whose text is blank, "Slide N" with N the position of the *)
(* slide in the result, counted from 1.                                    *)
(***************************************************************************)
\* The text of a heading line: what follows the marker, trimmed.
HeadingText(line) == trim(Tail(trim(line)))

C10_TitleOfEverySlide ==
  Parsed =>
    \A j \in 1..Len(specs) :
      /\ specs[j].title # <<>>
      /\ j - ImplicitSlides <= Len(HeadingPasses) =>
           specs[j].title =
             IF j - ImplicitSlides = 0 THEN SlideTitle(j)
             ELSE LET t == HeadingText(lines[rules[HeadingPasses[j - ImplicitSlides]].from])
                  IN IF t # <<>> THEN t ELSE SlideTitle(j)
(***************************************************************************)
(* What the parser holds: its slides and blocks, and the pass that gave    *)
(* each block                                                              *)
(***************************************************************************)
\* The slides so far, the open one last.
ParsedSlides == state.slides \o state.current
\* Their blocks, in order.
ParsedBlocks == Flatten([j \in 1..Len(ParsedSlides) |-> ParsedSlides[j].blocks])
\* The passes that gave a block, in order: the k-th gave ParsedBlocks[k].
BlockPasses ==
  LET at == [n \in 1..Len(rules) |-> n]
  IN SelectSeq(at, LAMBDA n :
       rules[n].rule \in {"image", "table", "bullets", "paragraph", "fenceClose"})
\* The lines a pass took.
LinesOfPass(n) ==
  [m \in 1..(rules[n].last - rules[n].from + 1) |-> lines[rules[n].from + m - 1]]

(***************************************************************************)
(* C11.  No Table block that parseSlides produces holds a separator row:   *)
(* a row that in the source is nothing but dashes, colons, pipes and       *)
(* whitespace, with one column or with several.                            *)
(***************************************************************************)
SeparatorCell(cell) == \A c \in 1..Len(cell) : cell[c] \in {"-", ":"} \/ IsWs(cell[c])
SeparatorRow(row) == \A c \in 1..Len(row) : SeparatorCell(row[c])

C11_NoSeparatorRows ==
  \A k \in 1..Len(ParsedBlocks) :
    ParsedBlocks[k].type = "table" =>
      \A r \in 1..Len(ParsedBlocks[k].rows) : ~SeparatorRow(ParsedBlocks[k].rows[r])

(***************************************************************************)
(* C12.  Every bullet item that parseSlides produces has indentLevel =     *)
(* min(floor(w / 2), 3), w the width of the leading whitespace of its line *)
(* with a tab counted as two: the level is in 0..3, and ten spaces give 3. *)
(***************************************************************************)
RECURSIVE IndentWidth(_)
IndentWidth(s) ==
  IF s = <<>> THEN 0
  ELSE IF ~IsWs(Head(s)) THEN 0
  ELSE (IF Head(s) = TAB THEN 2 ELSE 1) + IndentWidth(Tail(s))
TenSpaces(s) == Len(s) > 10 /\ (\A c \in 1..10 : s[c] = " ") /\ ~IsWs(s[11])

C12_IndentLevel ==
  \A k \in 1..Len(BlockPasses) :
    rules[BlockPasses[k]].rule = "bullets" =>
      LET src == LinesOfPass(BlockPasses[k])
          items == ParsedBlocks[k].items
      IN /\ ParsedBlocks[k].type = "bullets"
         /\ Len(items) = Len(src)
         /\ \A m \in 1..Len(src) :
              /\ items[m].indentLevel = MinOf(IndentWidth(src[m]) \div 2, 3)
              /\ items[m].indentLevel \in 0..3
              /\ TenSpaces(src[m]) => items[m].indentLevel = 3

\* A bullet line indented by ten spaces and one indented by tabs were parsed.
C12_DeepIndentParsed ==
  /\ Parsed
  /\ \E k \in 1..Len(BlockPasses) :
       /\ rules[BlockPasses[k]].rule = "bullets"
       /\ \E m \in 1..Len(LinesOfPass(BlockPasses[k])) :
            /\ TenSpaces(LinesOfPass(BlockPasses[k])[m])
            /\ ParsedBlocks[k].items[m].indentLevel = 3
       /\ \E m \in 1..Len(LinesOfPass(BlockPasses[k])) :
            /\ LinesOfPass(BlockPasses[k])[m][1] = TAB
            /\ ParsedBlocks[k].items[m].indentLevel = 2
(***************************************************************************)
(* C13.  When the input ends inside an open code fence, parseSlides closes *)
(* the fence itself: exactly one Code block is appended to the current     *)
(* slide, its text the lines after the opening fence joined by line feeds, *)
(* verbatim, its language the tag of the opening fence, and the current    *)
(* slide is then sealed into the result.                                   *)
(***************************************************************************)
\* The passes that opened a fence that no later pass closed.
OpenFencePasses ==
  {n \in 1..Len(rules) :
     /\ rules[n].rule = "fenceOpen"
     /\ \A m \in (n + 1)..Len(rules) : rules[m].rule = "codeLine"}
\* The scan has taken every line and the last fence is still open.
EndedInFence == pc # "parse" /\ index > Len(lines) /\ OpenFencePasses # {}
\* The tag after the three backticks of a fence line, trimmed.
FenceTag(line) ==
  LET tag == trim(SubSeq(trimEnd(line), 4, Len(trimEnd(line))))
  IN IF tag = <<>> THEN Undefined ELSE tag

C13_OpenFenceAutoClosed ==
  EndedInFence =>
    LET n == CHOOSE n \in OpenFencePasses : TRUE
        body == [m \in 1..(Len(lines) - rules[n].from) |-> lines[rules[n].from + m]]
    IN /\ error # "TypeError"
       /\ specs # <<>>
       /\ Len(Flatten([j \in 1..Len(specs) |-> specs[j].blocks])) = Len(BlockPasses) + 1
       /\ LET last == specs[Len(specs)].blocks
          IN /\ last # <<>>
             /\ last[Len(last)] = Code(join(body), FenceTag(lines[rules[n].from]))
(***************************************************************************)
(* The parse replayed: the state after each pass, and the slide a pass     *)
(* worked on                                                               *)
(***************************************************************************)
RECURSIVE StateAfter(_)
StateAfter(n) ==
  IF n = 0 THEN NewParseState
  ELSE IF variant = "txt2ppt" THEN parseLine(StateAfter(n - 1), lines, rules[n].from).st
  ELSE parseLine000(StateAfter(n - 1), lines, rules[n].from).st
\* The position of the slide that is open after pass n (0: none yet).
SlideOfPass(n) == Len(StateAfter(n).slides) + Len(StateAfter(n).current)
\* The slides as they stand: the result once parseSlides has returned.
SlidesNow == IF Parsed THEN specs ELSE state.slides \o state.current

(***************************************************************************)
(* C14.  The notes of a slide are the trimmed remainders (the text after   *)
(* the prefix ">note:", in any case) of all note lines of that slide, in   *)
(* source order, joined by one line feed between consecutive lines: for    *)
(* every line the parser takes as a note line, also one with leading       *)
(* whitespace and one with an empty remainder.                             *)
(***************************************************************************)
NoteRemainder(line) == trim(SubSeq(trimStart(line), 7, Len(trimStart(line))))
NotePassesOf(j) ==
  LET at == [n \in 1..Len(rules) |-> n]
  IN SelectSeq(at, LAMBDA n : rules[n].rule = "note" /\ SlideOfPass(n) = j)

C14_NotesAreTheRemainders ==
  pc # "failed" =>
    \A j \in 1..Len(SlidesNow) :
      LET ns == NotePassesOf(j)
      IN SlidesNow[j].notes =
           IF ns = <<>> THEN Undefined
           ELSE join([k \in 1..Len(ns) |-> NoteRemainder(lines[rules[ns[k]].from])])
(***************************************************************************)
(* C15.  For every line that matches the image pattern parseSlides emits   *)
(* an Image: alt is the alt text trimmed, path is the target without a     *)
(* trailing tag "#cover" or "#contain" (in any case), trimmed, and sizing  *)
(* is that tag in lower case, or unset when there is none.  The line       *)
(* "![logo](img/logo.png#cover)" gives alt "logo", path "img/logo.png",    *)
(* sizing "cover".                                                         *)
(***************************************************************************)
\* Where the alt text of an image line ends: the first "](" that leaves a
\* target between it and the closing parenthesis; 0 when the line is no image.
ImageAltEnd(line) ==
  LET t == trim(line)
      ends == {k \in 3..(Len(t) - 3) : t[k] = "]" /\ t[k + 1] = "("}
  IN IF Len(t) >= 6 /\ t[1] = "!" /\ t[2] = "[" /\ t[Len(t)] = ")" /\ ends # {}
     THEN Min(ends) ELSE 0
ImageTarget(line) == SubSeq(trim(line), ImageAltEnd(line) + 2, Len(trim(line)) - 1)
\* The tag a target ends with, "" for none.
TagOf(target) ==
  IF Len(target) >= 6 /\ toLowerCase(SubSeq(target, Len(target) - 5, Len(target)))
                          = <<"#", "c", "o", "v", "e", "r">>
  THEN "cover"
  ELSE IF Len(target) >= 8 /\ toLowerCase(SubSeq(target, Len(target) - 7, Len(target)))
                               = <<"#", "c", "o", "n", "t", "a", "i", "n">>
  THEN "contain"
  ELSE ""
ExpectedImage(line) ==
  LET t == trim(line)
      target == ImageTarget(line)
      tag == TagOf(target)
  IN Image(trim(SubSeq(t, 3, ImageAltEnd(line) - 1)),
           IF tag = "cover" THEN trim(SubSeq(target, 1, Len(target) - 6))
           ELSE IF tag = "contain" THEN trim(SubSeq(target, 1, Len(target) - 8))
           ELSE trim(target),
           IF tag = "cover" THEN <<"c", "o", "v", "e", "r">>
           ELSE IF tag = "contain" THEN <<"c", "o", "n", "t", "a", "i", "n">>
           ELSE Undefined)

C15_ImageFields ==
  /\ \A n \in 1..Len(rules) :
       (rules[n].rule \notin {"codeLine", "fenceClose"}
          /\ ImageAltEnd(lines[rules[n].from]) > 0) => rules[n].rule = "image"
  /\ \A k \in 1..Len(BlockPasses) :
       rules[BlockPasses[k]].rule = "image" =>
         /\ ImageAltEnd(lines[rules[BlockPasses[k]].from]) > 0
         /\ ParsedBlocks[k] = ExpectedImage(lines[rules[BlockPasses[k]].from])
         /\ lines[rules[BlockPasses[k]].from] = TextImage =>
              ParsedBlocks[k] = Image(<<"l", "o", "g", "o">>,
                                      <<"i", "m", "g", "/", "l", "o", "g", "o", ".", "p", "n", "g">>,
                                      <<"c", "o", "v", "e", "r">>)

\* Images with a tag in upper case, with no tag and with the example's tag
\* have been parsed.
C15_ImagesParsed ==
  /\ Parsed
  /\ \E k \in 1..Len(BlockPasses) :
       /\ rules[BlockPasses[k]].rule = "image"
       /\ ParsedBlocks[k].sizing = <<"c", "o", "n", "t", "a", "i", "n">>
       /\ TagOf(ImageTarget(lines[rules[BlockPasses[k]].from])) = "contain"
       /\ \E c \in 1..Len(lines[rules[BlockPasses[k]].from]) :
            lines[rules[BlockPasses[k]].from][c] = "C"
  /\ \E k \in 1..Len(BlockPasses) :
       rules[BlockPasses[k]].rule = "image" /\ ParsedBlocks[k].sizing = Undefined
  /\ \E k \in 1..Len(BlockPasses) :
       lines[rules[BlockPasses[k]].from] = TextImage /\ rules[BlockPasses[k]].rule = "image"
(***************************************************************************)
(* C16.  The speaker notes of a slide go to exactly one page, the first    *)
(* page of that slide, when the slide has notes; no continuation page of   *)
(* the slide ever gets notes.                                              *)
(***************************************************************************)
\* The first page of slide i has been completed.
FirstPageClosed(i) == Finished(i) \/ (i = specIndex /\ InSlide /\ sequence >= 1)

C16_NotesOnFirstPageOnly ==
  \A i \in 1..Len(specs) : Started(i) =>
    LET ps == PagesOf(i) IN
    /\ \A p \in 2..Len(ps) : ps[p].notes = Undefined
    /\ Len(ps) >= 1 => ps[1].notes \in {Undefined, specs[i].notes}
    /\ FirstPageClosed(i) =>
         /\ Len(ps) >= 1
         /\ ps[1].notes = IF Truthy(specs[i].notes) THEN specs[i].notes ELSE Undefined
         /\ Truthy(specs[i].notes) =>
              Cardinality({p \in 1..Len(ps) : ps[p].notes # Undefined}) = 1

\* A slide with notes took several pages; the first page has the notes.
C16_NotesAndContinuation ==
  \E i \in 1..Len(specs) :
    /\ Finished(i)
    /\ Truthy(specs[i].notes)
    /\ Len(PagesOf(i)) >= 3
    /\ PagesOf(i)[1].notes = specs[i].notes

(***************************************************************************)
(* C17: main writes the output file only after parseSlides returned at     *)
(* least one slide and renderSlides went through all of them; on every     *)
(* failure before the write (arguments, paths, reading, parsing, no slide, *)
(* rendering) nothing is written, and every failure ends with exit code 1. *)
(***************************************************************************)
MainFailures ==
  {"ArgumentError", "PathError", "ReadError", "TypeError", "NoSlides", "RenderError"}

C17_WriteOnlyAfterSuccess ==
  /\ written =>
       /\ ~parseArguments(argv).threw
       /\ index = Len(lines) + 1
       /\ specs # <<>>
       /\ specIndex = Len(specs) + 1
       /\ Len(finished) = Len(specs)
       /\ error \in {"none", "WriteError"}
  /\ error \in MainFailures => ~written
  /\ (pc = "exit" /\ error # "none") => exitCode = 1
  /\ (pc = "exit" /\ error = "none") => (written /\ exitCode = 0)
  /\ (pc = "exit") <=> (exitCode = 1 \/ (written /\ error = "none"))

\* main came to its end having written a file of several pages.
C17_FileWritten ==
  pc = "exit" /\ written /\ exitCode = 0 /\ Len(pages) >= 2

\* Each failure path was taken to its end.
C17_FailedOn(kind) == pc = "exit" /\ error = kind /\ exitCode = 1 /\ ~written

(***************************************************************************)
(* C18.  Every line is consumed exactly once: the passes of the scan are   *)
(* contiguous (the first starts at line 1, each next one at the line after *)
(* the last line of the one before, which is the line that ended a         *)
(* collector run), a collector run is maximal, every pass that gives a     *)
(* block gives one block made of exactly its lines, and a subtitle or      *)
(* background line ends up in the field of its slide.                      *)
(***************************************************************************)
\* The blocks of the slides as they stand, in order.
BlocksNow == Flatten([j \in 1..Len(SlidesNow) |-> SlidesNow[j].blocks])

\* The passes cover the lines before index, each line once and in order;
\* they cover all lines once parseSlides has returned.
C18_PassesContiguous ==
  /\ \A n \in 1..Len(rules) :
       /\ rules[n].from <= rules[n].last
       /\ rules[n].last <= Len(lines)
       /\ rules[n].from = IF n = 1 THEN 1 ELSE rules[n - 1].last + 1
  /\ index = IF rules = <<>> THEN 1 ELSE rules[Len(rules)].last + 1
  /\ Parsed => index = Len(lines) + 1

\* A table or bullet run takes table or bullet lines only; a paragraph run
\* takes no blank line; a line of a one-line rule is taken alone.
C18_RunsOfOneKind ==
  \A n \in 1..Len(rules) :
    LET src == LinesOfPass(n)
    IN CASE rules[n].rule = "table" ->
              \A m \in 1..Len(src) : isTableLine(trim(src[m]))
         [] rules[n].rule = "bullets" ->
              \A m \in 1..Len(src) : BULLET_REGEX(src[m])
         [] rules[n].rule = "paragraph" ->
              \A m \in 1..Len(src) : trim(src[m]) # <<>>
         [] OTHER -> Len(src) = 1

\* The k-th pass that gives a block gave the k-th block, made of its lines;
\* the only other block is the one of a fence left open at the end.
C18_OneBlockPerRun ==
  /\ Len(BlocksNow) =
       Len(BlockPasses) + (IF Parsed /\ EndedInFence /\ specs # <<>> THEN 1 ELSE 0)
  /\ \A k \in 1..Len(BlockPasses) :
       LET n == BlockPasses[k]
           src == LinesOfPass(n)
           b == BlocksNow[k]
       IN CASE rules[n].rule = "table" -> b.type = "table" /\ Len(b.rows) = Len(src)
            [] rules[n].rule = "bullets" -> b.type = "bullets" /\ Len(b.items) = Len(src)
            [] rules[n].rule = "paragraph" ->
                 b = Paragraph(join([m \in 1..Len(src) |-> trim(src[m])]))
            [] rules[n].rule = "image" -> b.type = "image"
            [] OTHER -> b.type = "code"

\* What a subtitle or background line says.
SubtitleOf(line) == trim(SubSeq(trim(line), 3, Len(trim(line))))
BackgroundOf(line) == trim(SubSeq(trim(line), 5, Len(trim(line))))
\* Pass n is the last pass of its rule on its slide.
LastOfItsRule(n) ==
  \A m \in (n + 1)..Len(rules) :
    ~(rules[m].rule = rules[n].rule /\ SlideOfPass(m) = SlideOfPass(n))

\* A subtitle or background line is in the field of its slide: the field
\* holds what the line says (a background line that starts with whitespace
\* is there as a whole).
FieldHolds(n) ==
  LET j == SlideOfPass(n)
      line == lines[rules[n].from]
  IN /\ j \in 1..Len(SlidesNow)
     /\ rules[n].rule = "subtitle" => SlidesNow[j].subtitle = SubtitleOf(line)
     /\ rules[n].rule = "background" =>
          /\ SlidesNow[j].background # Undefined
          /\ endsWith(SlidesNow[j].background, BackgroundOf(line))

FieldPasses == {n \in 1..Len(rules) : rules[n].rule \in {"subtitle", "background"}}

RuleOutsideFence(n) == parseLine(NewParseState, lines, n).rule

BoundaryIffOtherRule(n) ==
  isBlockBoundary(lines[n]) <=> RuleOutsideFence(n) # "paragraph"

\* Two paragraph runs, the second starting at the line after the first.
AdjacentParagraphs(n) ==
  /\ n + 1 <= Len(rules)
  /\ rules[n].rule = "paragraph"
  /\ rules[n + 1].rule = "paragraph"
  /\ rules[n + 1].from = rules[n].last + 1

C19_BoundaryIsTheOtherRules ==
  /\ variant = "txt2ppt" => \A n \in 1..Len(lines) : BoundaryIffOtherRule(n)
  /\ \A n \in 1..Len(rules) : ~AdjacentParagraphs(n)

(***************************************************************************)
(* C20.  While a fence is open, a pass over a line that is not a closing   *)
(* marker appends the line as it is (not trimmed, a blank line too) to the *)
(* lines of the fence and changes nothing else of the parse state: no      *)
(* slide is started, no field is set and no block is emitted, whatever the *)
(* line looks like.                                                        *)
(***************************************************************************)
\* A fence marker: three backticks at the start of the line, whitespace at
\* its end not counted.
ClosesFence(line) ==
  LET l == trimEnd(line)
  IN Len(l) >= 3 /\ l[1] = BACKTICK /\ l[2] = BACKTICK /\ l[3] = BACKTICK

InOpenFence == pc = "parse" /\ index <= Len(lines) /\ state.codeBlock # <<>>

C20_FenceTakesTheLineVerbatim ==
  [][(InOpenFence /\ ~ClosesFence(lines[index])) =>
       /\ state'.slides = state.slides
       /\ state'.current = state.current
       /\ Len(state'.codeBlock) = 1
       /\ state'.codeBlock[1].language = state.codeBlock[1].language
       /\ state'.codeBlock[1].lines = Append(state.codeBlock[1].lines, lines[index])
       /\ index' = index + 1
       /\ rules' = Append(rules, [from |-> index, last |-> index, rule |-> "codeLine"])
       /\ pc' = "parse" /\ error' = error]_vars

\* Pass n took, inside a fence, a line that outside a fence goes by rule r.
TakenInFence(n, r) ==
  /\ rules[n].rule = "codeLine"
  /\ parseLine(NewParseState, lines, rules[n].from).rule = r

\* A heading, a bullet line with whitespace at its end, an indented line and
\* a blank line were taken inside one fence, and are its lines as they were.
C20_MarkupTakenAsCode ==
  /\ state.codeBlock # <<>>
  /\ \A r \in {"heading", "bullets", "blank", "paragraph"} :
       \E n \in 1..Len(rules) : TakenInFence(n, r)
  /\ \E n \in 1..Len(rules) :
       /\ rules[n].rule = "codeLine"
       /\ LeadWs(lines[rules[n].from]) > 0
       /\ lines[rules[n].from] # trim(lines[rules[n].from])
  /\ \E n \in 1..Len(rules) :
       /\ rules[n].rule = "fenceOpen"
       /\ state.codeBlock[1].lines =
            [m \in 1..(Len(rules) - n) |-> lines[rules[n].from + m]]

(***************************************************************************)
(* C21.  A Table at the head of the queue whose needed height exceeds the  *)
(* height still available on the page is deferred: the pass of the         *)
(* placement loop draws nothing, ends the loop and leaves the queue as it  *)
(* is, with the table at its head for the next page.                       *)
(***************************************************************************)
TableTooTallAhead ==
  /\ pc = "place"
  /\ queue # <<>>
  /\ queue[1].type = "table"
  /\ NeededHeight(queue[1]) > safeBottom - cursor

C21_TooTallTableDeferred ==
  [][TableTooTallAhead => (pages' = pages /\ queue' = queue /\ pc' = "close")]_vars

(***************************************************************************)
(* C22.  Splitting a Code block loses nothing: on any page height the      *)
(* lines of its fragments, in page order, followed by the lines of what is *)
(* still queued of it, are exactly the lines of the original code, blank   *)
(* lines and the indentation of every line included, and every fragment    *)
(* has the language of the original.                                       *)
(***************************************************************************)
C22_CodeSplitLossless ==
  \A i \in 1..Len(specs) : Started(i) =>
    \A k \in 1..Len(specs[i].blocks) :
      specs[i].blocks[k].type = "code" =>
        /\ LinesOfTexts(PartsOf(i, k)) = split(specs[i].blocks[k].text)
        /\ \A n \in 1..Len(PlacedOf(i, k)) :
             /\ PlacedOf(i, k)[n].block.type = "code"
             /\ PlacedOf(i, k)[n].block.language = specs[i].blocks[k].language
        /\ \A n \in 1..Len(PendingOf(i, k)) :
             PendingOf(i, k)[n].language = specs[i].blocks[k].language

(***************************************************************************)
(* C23.  A split ends its page: the head fragment is the last thing drawn  *)
(* on the page, so a page has one split at most; the remainder is at the   *)
(* front of the queue, before every block that came after the block that   *)
(* was split, and it is the first thing drawn on the next page.            *)
(***************************************************************************)
\* Page p ended with the split of a block: the block's position, else 0.
SplitAtEndOf(p) ==
  IF pages[p].placed # <<>> /\ pages[p].placed[Len(pages[p].placed)].kind = "split"
  THEN pages[p].placed[Len(pages[p].placed)].src
  ELSE 0

C23_SplitEndsThePage ==
  /\ \A p \in 1..Len(pages) : \A m \in 1..Len(pages[p].placed) :
       pages[p].placed[m].kind = "split" => m = Len(pages[p].placed)
  /\ \A p \in 1..Len(pages) :
       (p < Len(pages) /\ pages[p + 1].spec = pages[p].spec /\ SplitAtEndOf(p) # 0) =>
         /\ pages[p + 1].placed # <<>> => pages[p + 1].placed[1].src = SplitAtEndOf(p)
         /\ (p + 1 = Len(pages) /\ pc = "place" /\ pages[p + 1].placed = <<>>) =>
              (queue # <<>> /\ qsrc[1] = SplitAtEndOf(p))
  /\ (InSlide /\ pages # <<>> /\ SplitAtEndOf(Len(pages)) # 0) =>
       /\ pc # "place"
       /\ queue # <<>>
       /\ qsrc[1] = SplitAtEndOf(Len(pages))
       /\ queue[1].type = specs[specIndex].blocks[qsrc[1]].type
       /\ \A j \in 2..Len(qsrc) : qsrc[j] > qsrc[1]

\* A block was split with other blocks behind it, and its remainder is the
\* first thing on the page that follows.
C23_RemainderLeadsNextPage ==
  \E p \in 1..Len(pages) :
    /\ p < Len(pages)
    /\ pages[p + 1].spec = pages[p].spec
    /\ SplitAtEndOf(p) # 0
    /\ Len(pages[p].placed) >= 2
    /\ SplitAtEndOf(p) < Len(specs[pages[p].spec].blocks)
    /\ Len(pages[p + 1].placed) >= 2
    /\ pages[p + 1].placed[1].src = SplitAtEndOf(p)

(***************************************************************************)
(* C24.  A separator line, one made of pipes, colons, dashes and           *)
(* whitespace only, gives nothing: outside a fence it is taken as part of  *)
(* a table run and by no other rule, the Table of the run has no row for   *)
(* it, and the table lines right before and right after it are rows of     *)
(* one Table block.                                                        *)
(***************************************************************************)
SeparatorLine(line) ==
  LET t == trim(line)
  IN /\ Len(t) >= 3
     /\ t[1] = "|" /\ t[Len(t)] = "|"
     /\ \A c \in 1..Len(t) : t[c] \in {"|", ":", "-"} \/ IsWs(t[c])
     /\ \E c \in 1..Len(t) : t[c] = "-"

\* A line of cells: pipes at both ends, and not a separator line.
RowLine(line) ==
  LET t == trim(line)
  IN Len(t) >= 2 /\ t[1] = "|" /\ t[Len(t)] = "|" /\ ~SeparatorLine(line)

\* The pass that took line m (m < index).
PassOf(m) == CHOOSE n \in 1..Len(rules) : rules[n].from <= m /\ m <= rules[n].last
\* The block that pass n gave, n a pass that gives a block.
BlockOfPass(n) ==
  BlocksNow[CHOOSE k \in 1..Len(BlockPasses) : BlockPasses[k] = n]

C24_SeparatorLinesDiscarded ==
  \A m \in 1..Len(lines) :
    (m < index /\ error # "TypeError" /\ SeparatorLine(lines[m])
     /\ rules[PassOf(m)].rule # "codeLine") =>
      LET n == PassOf(m)
          src == LinesOfPass(n)
      IN /\ rules[n].rule = "table"
         /\ Len(BlockOfPass(n).rows) = Cardinality({x \in 1..Len(src) : ~SeparatorLine(src[x])})
         /\ (m > rules[n].from /\ m < Len(lines) /\ m + 1 < index
             /\ RowLine(lines[m - 1]) /\ RowLine(lines[m + 1])) => m + 1 <= rules[n].last

(***************************************************************************)
(* C25.  The sealed slides (state.slides) only grow, by one slide at a     *)
(* time and at the end only, and they grow only when a heading line is     *)
(* processed or the input has ended: every other pass, also one that       *)
(* creates an implicit slide, leaves them as they are.  The slide sealed   *)
(* by a heading is the open slide as it stood, and a fresh slide takes its *)
(* place, so no slide is sealed twice and no sealed slide changes.         *)
(***************************************************************************)
C25_SealedOnlyAtHeadingOrEnd ==
  [][/\ Len(state'.slides) >= Len(state.slides)
     /\ SubSeq(state'.slides, 1, Len(state.slides)) = state.slides
     /\ Len(state'.slides) <= Len(state.slides) + 1
     /\ Len(state'.slides) = Len(state.slides) + 1 =>
          \/ /\ index > Len(lines)
             /\ pc' # "parse"
          \/ /\ index <= Len(lines)
             /\ HEADING_REGEX(trim(lines[index]))
             /\ rules' = Append(rules, [from |-> index, last |-> index, rule |-> "heading"])
             /\ state.current # <<>>
             /\ state'.slides[Len(state'.slides)] = state.current[1]
             /\ state'.current # <<>>
             /\ state'.current[1].blocks = <<>>
             /\ state'.current[1].notes = Undefined]_vars

\* An implicit slide was made by a content line and sealed by a heading, and
\* the slide of the heading has content of its own.
C25_ImplicitSlideSealed ==
  /\ pc = "parse"
  /\ rules # <<>> /\ rules[1].rule \notin {"heading", "blank"}
  /\ Len(state.slides) = 1
  /\ state.current # <<>>
  /\ state.current[1].blocks # <<>>

(***************************************************************************)
(* C26.  No Bullets block is empty: every Bullets block that parseSlides   *)
(* gives has an item, and so has every Bullets fragment drawn on a page    *)
(* and every Bullets block or remainder in the queue of a slide.           *)
(***************************************************************************)
HasItems(b) == b.type = "bullets" => Len(b.items) >= 1

C26_BulletsNeverEmpty ==
  /\ \A k \in 1..Len(BlocksNow) : HasItems(BlocksNow[k])
  /\ \A p \in 1..Len(pages) : \A m \in 1..Len(pages[p].placed) :
       HasItems(pages[p].placed[m].block)
  /\ \A j \in 1..Len(queue) : HasItems(queue[j])
  /\ \A i \in 1..Len(finished) : \A j \in 1..Len(finished[i].queue) :
       HasItems(finished[i].queue[j])

\* A parsed bullet list was split: a fragment of it is on a page and the
\* remainder heads the queue.
C26_ParsedBulletsSplit ==
  /\ FromParser
  /\ InSlide
  /\ queue # <<>> /\ queue[1].type = "bullets"
  /\ pages # <<>> /\ SplitAtEndOf(Len(pages)) = qsrc[1]
  /\ Len(queue[1].items) < Len(specs[specIndex].blocks[qsrc[1]].items)

(***************************************************************************)
(* C27.  The background of a slide is what the last background line of     *)
(* the slide with a value says (the text after the prefix, trimmed), and   *)
(* it is unset when the slide has no such line; a background line without  *)
(* a value leaves the parse state as it was.                               *)
(***************************************************************************)
\* The background passes of slide j that have a value, in source order.
BackgroundPassesOf(j) ==
  LET at == [n \in 1..Len(rules) |-> n]
  IN SelectSeq(at, LAMBDA n : /\ rules[n].rule = "background"
                              /\ SlideOfPass(n) = j
                              /\ BackgroundOf(lines[rules[n].from]) # <<>>)

C27_BackgroundIsLastValue ==
  error # "TypeError" =>
    /\ \A j \in 1..Len(SlidesNow) :
         LET bs == BackgroundPassesOf(j)
         IN SlidesNow[j].background =
              IF bs = <<>> THEN Undefined
              ELSE BackgroundOf(lines[rules[bs[Len(bs)]].from])
    /\ \A n \in 1..Len(rules) :
         (rules[n].rule = "background" /\ BackgroundOf(lines[rules[n].from]) = <<>>) =>
           StateAfter(n) = StateAfter(n - 1)

(***************************************************************************)
(* C28: supported layouts and the first placement of a page                *)
(***************************************************************************)

\* safeArea.bottom under the four supported layouts
SupportedBottoms == {safeBottomOf(layoutHeight(l)) : l \in VALID_LAYOUTS}

\* Page p is over: the outer loop's body for it has run to its end.
PageComplete(p) == p < Len(pages) \/ pc \notin {"place", "close"}

\* Page p is the first page of its slide.
IsFirstPage(p) == p = 1 \/ pages[p - 1].spec # pages[p].spec

\* The queue held a block when page p was opened: a continuation page is only
\* opened for a non-empty queue, a first page starts from the slide's blocks.
OpenedWithBlocks(p) == ~IsFirstPage(p) \/ specs[pages[p].spec].blocks # <<>>

\* Under a supported layout the first attempt of a page, at BODY_TOP, never
\* defers, and the page is never closed with its queue untouched, so the
\* forced placement is never taken.
C28_FirstAttemptNeverDefers ==
  safeBottom \in SupportedBottoms =>
    /\ (pc = "place" /\ ~consumed /\ queue # <<>>) =>
         /\ cursor = BODY_TOP
         /\ renderBlock(variant, queue[1], cursor, safeBottom - cursor).kind # "defer"
    /\ (pc = "close" /\ queue # <<>>) => consumed
    /\ \A p \in 1..Len(pages) : \A m \in 1..Len(pages[p].placed) :
         ~pages[p].placed[m].forced

\* C28: under each of the four supported layouts every page opened while the
\* block queue is non-empty places at least one block or fragment: the first
\* attempt at the body top never defers, the forced placement is never taken,
\* and no page opened for a non-empty queue, a continuation page in
\* particular, is left empty.
C28_EveryPagePlaces ==
  /\ C28_FirstAttemptNeverDefers
  /\ safeBottom \in SupportedBottoms =>
       \A p \in 1..Len(pages) :
         (PageComplete(p) /\ OpenedWithBlocks(p)) => pages[p].placed # <<>>

(***************************************************************************)
(* C29: what a split leaves on the page and in the queue                   *)
(***************************************************************************)

\* The lines of a Paragraph or Code block, the items of a Bullets block.
UnitsOf(b) ==
  IF b.type = "bullets" THEN Len(b.items)
  ELSE IF b.type \in {"paragraph", "code"} THEN Len(split(b.text))
  ELSE 0

\* The block has content: an item, or text that is not only whitespace.
HasContent(b) ==
  IF b.type = "bullets" THEN Len(b.items) >= 1
  ELSE IF b.type \in {"paragraph", "code"} THEN trim(b.text) # <<>>
  ELSE TRUE

\* The next pass of the inner loop splits the head of the queue.
SplitAhead ==
  /\ pc = "place"
  /\ queue # <<>>
  /\ renderBlock(variant, queue[1], cursor, safeBottom - cursor).kind = "split"

\* The head fragment the split has just drawn.
HeadDrawn == pages'[Len(pages')].placed[Len(pages'[Len(pages')].placed)].block

\* The split is of a Paragraph, Bullets or Code block, the head fragment has
\* a line or item, and the remainder is shorter than the block.
C29_SplitShortensTheBlock ==
  [][SplitAhead =>
       /\ queue[1].type \in {"paragraph", "bullets", "code"}
       /\ HeadDrawn.type = queue[1].type /\ queue'[1].type = queue[1].type
       /\ UnitsOf(HeadDrawn) >= 1
       /\ UnitsOf(queue'[1]) >= 1
       /\ UnitsOf(queue'[1]) < UnitsOf(queue[1])]_vars

\* C29: whenever a placement returns Split (Paragraph, Bullets or Code), the
\* head fragment drawn on the page holds at least one line or item, and the
\* remainder is non-empty, with at least one line or item of actual content,
\* and has strictly fewer lines or items than the block that was split.
C29_SplitLeavesContent ==
  [][SplitAhead =>
       /\ queue[1].type \in {"paragraph", "bullets", "code"}
       /\ UnitsOf(HeadDrawn) >= 1
       /\ HasContent(queue'[1])
       /\ UnitsOf(queue'[1]) < UnitsOf(queue[1])]_vars

(***************************************************************************)
(* C30.  No placement extends below the page bottom: every block or        *)
(* fragment drawn starts at y >= BODY_TOP and the cursor it returns is at   *)
(* most the page bottom (page height minus bottom margin), and the inner    *)
(* loop attempts no placement once the cursor has reached the page bottom   *)
(* minus one block gap.  A page starts with its cursor at BODY_TOP and its  *)
(* first attempt is made without a test of the cursor; under the supported  *)
(* layouts BODY_TOP is above that mark, so there every attempt is made      *)
(* above it.                                                                *)
(***************************************************************************)
\* An attempt is due: the inner loop is about to call renderBlock.
AttemptAhead == pc = "place" /\ queue # <<>>

RECURSIVE parseSlidesFrom(_, _, _, _)
parseSlidesFrom(file, ls, i, st) ==
  IF i > Len(ls)
  THEN LET e == IF file = "txt2ppt" THEN parseEnd(st) ELSE parseEnd000(st)
       IN IF e.threw THEN [threw |-> TRUE, slides |-> <<>>]
          ELSE [threw |-> FALSE, slides |-> e.st.slides]
  ELSE LET r == IF file = "txt2ppt" THEN parseLine(st, ls, i) ELSE parseLine000(st, ls, i)
       IN IF r.threw THEN [threw |-> TRUE, slides |-> <<>>]
          ELSE parseSlidesFrom(file, ls, r.last + 1, r.st)

\* The other of the two files.
OtherFile == IF variant = "txt2ppt" THEN "part_000" ELSE "txt2ppt"

\* parseSlides has returned or thrown.
ParseOver == pc # "parse"

\* What this run of parseSlides gave.
ResultNow == [threw |-> error = "TypeError",
              slides |-> IF error = "TypeError" THEN <<>> ELSE state.slides]

\* C31: the two parser variants are equivalent: for every input text,
\* parseSlides of txt2ppt.ts and parseSlides of unnamed/part_000 return the
\* same slide sequence (titles, subtitles, notes, backgrounds and blocks in
\* the same order).
C31_ParsersEquivalent ==
  ParseOver => ResultNow = parseSlidesFrom(OtherFile, lines, 1, NewParseState)

(***************************************************************************)
(* C32: the rules outside a fence exclude each other                       *)
(***************************************************************************)
MarkupRules ==
  {"fenceOpen", "heading", "subtitle", "note", "background", "image", "table", "bullets"}

\* The rules that match a line.
RulesMatching(line) == {r \in MarkupRules : MatchesRule(variant, r, line)}

\* The first rule of an order that matches the line, "none" when none does.
RECURSIVE firstMatch(_, _)
firstMatch(order, line) ==
  IF order = <<>> THEN "none"
  ELSE IF MatchesRule(variant, Head(order), line) THEN Head(order)
  ELSE firstMatch(Tail(order), line)

\* The order of the specification, and the same with subtitle before heading.
HeadingFirst ==
  <<"fenceOpen", "heading", "subtitle", "note", "background", "image", "table", "bullets">>
SubtitleFirst ==
  <<"fenceOpen", "subtitle", "heading", "note", "background", "image", "table", "bullets">>
\* The reverse of the order of the specification.
BulletsFirst ==
  <<"bullets", "table", "image", "background", "note", "subtitle", "heading", "fenceOpen">>

\* The passes made outside a fence.
PassesOutsideFence == {n \in 1..Len(rules) : rules[n].rule \notin {"codeLine", "fenceClose"}}

\* C32: outside a code fence the rules fence-open, heading, subtitle, note,
\* background, image, table and bullet are mutually exclusive: no line matches
\* two of them, so the rule that takes a line, and with it the result of
\* parseSlides, is the same in whatever order the rules are tested, heading
\* before subtitle or subtitle before heading; a "## x" line is taken by the
\* subtitle rule and never seals the open slide or starts the next one.
C32_RulesExcludeEachOther ==
  /\ \A m \in 1..Len(lines) :
       /\ Cardinality(RulesMatching(lines[m])) <= 1
       /\ firstMatch(HeadingFirst, lines[m]) = firstMatch(SubtitleFirst, lines[m])
       /\ firstMatch(HeadingFirst, lines[m]) = firstMatch(BulletsFirst, lines[m])
  /\ \A n \in PassesOutsideFence :
       LET line == lines[rules[n].from]
           taken == firstMatch(HeadingFirst, line)
       IN /\ IF taken = "none" THEN rules[n].rule \in {"blank", "paragraph", "title"}
             ELSE rules[n].rule = taken
          /\ taken = "subtitle" =>
               /\ StateAfter(n).slides = StateAfter(n - 1).slides
               /\ StateAfter(n - 1).current # <<>> =>
                    /\ Len(StateAfter(n).current) = 1
                    /\ StateAfter(n).current[1].title = StateAfter(n - 1).current[1].title
                    /\ StateAfter(n).current[1].blocks = StateAfter(n - 1).current[1].blocks

\* A subtitle line was taken while a slide with a block was open, and every
\* one of the eight rules has taken a line of the text.
C32_EveryRuleTaken ==
  /\ ParseOver /\ error = "none"
  /\ \A r \in MarkupRules : \E n \in PassesOutsideFence : rules[n].rule = r
  /\ \E n \in PassesOutsideFence :
       /\ rules[n].rule = "subtitle"
       /\ StateAfter(n - 1).current # <<>>
       /\ StateAfter(n - 1).current[1].blocks # <<>>

=============================================================================
